---- MODULE Spec2Model ----
(***************************************************************************)
(* KResearch: the key rotator (ApiKeyService), the two retrying request    *)
(* executors (executeWithRetry, executeOpenRouterWithRetry), the planner   *)
(* debate loop (runDynamicConversationalPlanner) and the multi-engine web  *)
(* search aggregator (performWebSearch), as state machines.                *)
(*                                                                         *)
(* Four specifications share the variables:                                *)
(*   RotatorSpec  the ApiKeyService object under arbitrary callers         *)
(*   Spec         one generate call at a time on the process-wide rotator  *)
(*   PlannerSpec  one planner call at a time (PlannerFairSpec adds WF)     *)
(*   SearchSpec   one performWebSearch call at a time                      *)
(***************************************************************************)
EXTENDS Integers, Sequences, FiniteSets, TLC

(***************************************************************************)
(* Bounds of the model.                                                    *)
(***************************************************************************)
\* longest key pool (and number of segments of a typed key string)
MaxKeys == 2
\* largest maxDebateRounds setting
MaxRounds == 3
\* longest research log handed to the planner
MaxHistory == 2
\* largest number of search cycles already run
MaxSearchCycles == 1
\* longest query, in words
MaxQueryWords == 4
\* most import('./settingsService') promises waiting at a time
MaxPendingClears == 2

(***************************************************************************)
(* Program constants.                                                      *)
(***************************************************************************)
maxRetriesPerKeyCycle == 3
BackoffBaseMs == 2000
RetryBufferMs == 500
MsPerSecond == 1000
HttpTooManyRequests == 429

VARIABLES
    \* ---- ApiKeyService (src/unnamed/part_002) ----
    userApiKeys,        \* the key pool, a sequence of key strings
    hasEnvKey,          \* keys come from the environment: the pool is frozen
    currentKeyIndex,    \* rotation cursor, -1 = fresh
    served,             \* history: the last indices getNextApiKey returned
    returned,           \* history: what the last getNextApiKey call returned
    \* ---- one generate call (src/test-websearch.cjs 229-549) ----
    pc,                 \* where the call is
    provider,           \* "gemini" | "openrouter": the executor chosen by ai
    isSearchRequest,    \* config.tools has googleSearch
    keysLength,         \* keys.length of the pool captured at the start of the call
                        \* (the call reads nothing else of `keys`)
    attempt,            \* loop counter, from 1
    key,                \* key of the current attempt
    error,              \* OpenRouter: error of the attempt's primary call
    lastError,          \* last error recorded by the retry loop
    delayMs,            \* the backoff being slept
    outcome,            \* how the call ended
    \* history of the call
    attemptsMade,       \* attempts that sent a request
    resetCalls,         \* apiKeyService.reset() invocations by this call
    all429,             \* every response so far was HTTP 429
    poolReplaced,       \* setApiKeys ran while the call was in flight
    webSearches,        \* performWebSearch invocations by this call
    \* ---- one planner call (src/services/models.ts 222-366) ----
    pPc,                \* where the call is
    minCycles,          \* settings.researchParams.minCycles
    maxDebateRounds,    \* settings.researchParams.maxDebateRounds
    maxCycles,          \* settings.researchParams.maxCycles
    searchCycles,       \* parameter
    researchHistory,    \* parameter: the research log
    currentConversation, \* personas of the reconstructed and the new turns
    lastPersona,
    nextPersona,
    debateTurns,
    consecutiveFinishAttempts,
    parsedResponse,     \* the sanitized turn being paced and evaluated
    plannerResult,      \* the returned value, or the failure thrown
    \* history of the call
    modelRequests,      \* generateContent calls made
    speakers,           \* the persona asked on each turn
    updatesCount,       \* onUpdate calls
    lastUpdate,         \* the last update appended through onUpdate
    appended,           \* the updates appended through onUpdate, in order
    lastDecision,       \* action and fate of the last evaluated turn
    prevDecision,       \* action of the evaluated turn before it
    finishBefore,       \* an evaluated turn before the last one decided finish
    allContinue,        \* every response so far decided continue_debate
    \* ---- one performWebSearch call (src/services/webSearchService.ts 536-636) ----
    sPc,                \* where the call is
    query,              \* parameter
    originalQuery,      \* processedQuery.originalQuery
    searchTerms,        \* processedQuery.searchTerms
    termIndex,          \* terms searched so far
    pending,            \* engines of the current term whose fetch is in flight
    termResults,        \* what each engine's promise of the current term resolved to
    allResults,
    allCitations,
    sOut,               \* the returned value, or the error thrown
    \* history of the call
    llmCalls,           \* generateContent calls made by processSearchQuery
    fallbackCalls,      \* invocations of the Fallback generator
    adaptersEmpty,      \* every adapter result merged so far was empty
    canned,             \* what each network fetch of the latest term came back with
    arrival,            \* the engines of the latest term in the order they settled
    \* ---- sanitizePlannerTurn on its own (src/services/models.ts 176-220) ----
    rawParsed,          \* the value handed to the sanitizer
    sanitized,          \* what the sanitizer returned for it
    applied,            \* the sanitizer has run on rawParsed
    \* ---- the endpoint and the model overrides (src/unnamed/part_002, part_001) ----
    apiBaseUrl,         \* ApiKeyService.apiBaseUrl
    modelOverrides,     \* settings.modelOverrides: role -> model name or null
    pendingClears,      \* import('./settingsService') promises not yet resolved
    switched            \* history: the last setApiBaseUrl changed the provider kind

rotVars == <<userApiKeys, hasEnvKey, currentKeyIndex, served, returned>>
execVars == <<pc, provider, isSearchRequest, keysLength, attempt, key, error, lastError,
              delayMs, outcome, attemptsMade, resetCalls, all429, poolReplaced,
              webSearches>>
planVars == <<pPc, minCycles, maxDebateRounds, maxCycles, searchCycles, researchHistory,
              currentConversation, lastPersona, nextPersona, debateTurns,
              consecutiveFinishAttempts, parsedResponse, plannerResult,
              modelRequests, speakers, updatesCount, lastUpdate, appended, lastDecision,
              prevDecision, finishBefore, allContinue>>
searchVars == <<sPc, query, originalQuery, searchTerms, termIndex, pending, termResults,
                allResults, allCitations, sOut, llmCalls, fallbackCalls, adaptersEmpty,
                canned, arrival>>
sanVars == <<rawParsed, sanitized, applied>>
settingsVars == <<apiBaseUrl, modelOverrides, pendingClears, switched>>
vars == <<rotVars, execVars, planVars, searchVars, sanVars, settingsVars>>

(***************************************************************************)
(* ApiKeyService                                                           *)
(***************************************************************************)
Undefined == "undefined"

\* A typed key string, cut at its separators [\n,]+ : each segment is a key,
\* a key with blanks around it, or blanks only.  The empty sequence is the
\* empty string.
Segments == {"k1", " k2 ", " "}

RECURSIVE SeqsUpTo(_, _)
SeqsUpTo(S, n) ==
    IF n = 0 THEN {<<>>}
    ELSE LET shorter == SeqsUpTo(S, n - 1)
         IN shorter \cup {Append(s, x) : s \in {t \in shorter : Len(t) = n - 1}, x \in S}

KeyStrings == SeqsUpTo(Segments, MaxKeys)

Trim(s) == CASE s = " k2 " -> "k2"
             [] s = " " -> ""
             [] OTHER -> s

RECURSIVE FilterNonEmpty(_)
FilterNonEmpty(s) ==
    IF s = <<>> THEN <<>>
    ELSE IF Head(s) = "" THEN FilterNonEmpty(Tail(s))
         ELSE <<Head(s)>> \o FilterNonEmpty(Tail(s))

\* parseKeys: split, trim every segment, drop the empty ones
parseKeys(keysString) ==
    FilterNonEmpty([i \in 1..Len(keysString) |-> Trim(keysString[i])])

KeyPools == {parseKeys(ks) : ks \in KeyStrings}
\* one typed string for each pool
PoolStrings == {CHOOSE ks \in KeyStrings : parseKeys(ks) = pool : pool \in KeyPools}

\* getNextApiKey's cursor arithmetic: (currentKeyIndex + 1) % keys.length
NextIndexSkipping(cursor, len) == (cursor + 2) % len
NextIndex(cursor, len) == (cursor + 1) % len

\* the cursor after n calls of getNextApiKey on a pool of len keys
RECURSIVE CursorAfter(_, _, _)
CursorAfter(cursor, len, n) ==
    IF n = 0 \/ len = 0 THEN cursor
    ELSE CursorAfter(NextIndex(cursor, len), len, n - 1)

\* keys[i] of the source, whose arrays count from 0
At(arr, i) == arr[i + 1]

\* reset(): the cursor goes back to "fresh"
FreshIndex == 0 - 1

\* the history window kept for the round-robin property
Window == 2 * MaxKeys
KeepLast(s, n) == IF Len(s) <= n THEN s ELSE SubSeq(s, Len(s) - n + 1, Len(s))

RotInit ==
    /\ hasEnvKey \in BOOLEAN
    /\ userApiKeys \in KeyPools
    /\ currentKeyIndex = FreshIndex
    /\ served = <<>>
    /\ returned = Undefined

\* the method getNextApiKey(): its effect on the cursor, and what it returns
\* (read in the state it leaves)
getNextApiKey ==
    IF Len(userApiKeys) = 0
    THEN UNCHANGED currentKeyIndex
    ELSE currentKeyIndex' = NextIndex(currentKeyIndex, Len(userApiKeys))

Returned(pool, cursor) == IF Len(pool) = 0 THEN Undefined ELSE At(pool, cursor)

\* the method reset()
resetKeepsCursor == UNCHANGED currentKeyIndex
reset ==
    currentKeyIndex' = FreshIndex

\* served: the indices returned since the pool or the cursor was last set
GetNextApiKey ==
    /\ getNextApiKey
    /\ returned' = Returned(userApiKeys, currentKeyIndex')
    /\ served' = IF Len(userApiKeys) = 0 THEN served
                 ELSE KeepLast(Append(served, currentKeyIndex'), Window)
    /\ UNCHANGED <<userApiKeys, hasEnvKey, execVars, planVars, searchVars, sanVars,
                   settingsVars>>

Reset ==
    /\ reset
    /\ served' = <<>>
    /\ UNCHANGED <<userApiKeys, hasEnvKey, returned, execVars, planVars, searchVars,
                   sanVars, settingsVars>>

SetApiKeys(keysString) ==
    /\ ~hasEnvKey
    /\ userApiKeys' = parseKeys(keysString)
    /\ served' = <<>>
    /\ poolReplaced' = (poolReplaced \/ pc \notin {"idle", "done"})
    /\ UNCHANGED <<hasEnvKey, currentKeyIndex, returned, planVars, searchVars, sanVars,
                   settingsVars>>
    /\ UNCHANGED <<pc, provider, isSearchRequest, keysLength, attempt, key, error, lastError,
                   delayMs, outcome, attemptsMade, resetCalls, all429, webSearches>>

(***************************************************************************)
(* The executors                                                           *)
(***************************************************************************)
Absent == <<"absent", 0>>
NoError == [attempt |-> 0, leg |-> "none", status |-> 0, retry |-> Absent]

ExecIdle ==
    /\ pc = "idle"
    /\ provider = "none"
    /\ isSearchRequest = FALSE
    /\ keysLength = 0
    /\ attempt = 0
    /\ key = Undefined
    /\ error = NoError
    /\ lastError = NoError
    /\ delayMs = 0
    /\ outcome = "none"
    /\ attemptsMade = 0
    /\ resetCalls = 0
    /\ all429 = TRUE
    /\ poolReplaced = FALSE
    /\ webSearches = 0

\* what one network call of an attempt can come back with: HTTP 200 with a
\* usable body, or an error (status 0: the error object has no status, as for
\* a network failure or an unparsable 200 body).  retry is the RetryInfo
\* retryDelay of a 429 payload: absent, a string without digits, or "<d>s".
RetryDelays == {Absent, <<"nodigits", 0>>, <<"digits", 0>>, <<"digits", 7>>}
Responses ==
    {[ok |-> TRUE, status |-> 200, retry |-> Absent]}
    \cup {[ok |-> FALSE, status |-> st, retry |-> Absent] : st \in {0, 500}}
    \cup {[ok |-> FALSE, status |-> HttpTooManyRequests, retry |-> r] : r \in RetryDelays}

\* the error object thrown for a failed call (which attempt and which call
\* of it identify the object); it carries the status and the payload
ErrorOf(resp, leg) ==
    [attempt |-> attempt, leg |-> leg, status |-> resp.status, retry |-> resp.retry]

\* isOpenRouterModel: the name does not contain 'gemini'
ModelNames == {"gemini-2.5-flash", "openrouter/auto"}
isOpenRouterModel(modelName) == modelName \notin {"gemini-2.5-flash"}

maxAttemptsOnePerKey == keysLength
maxAttempts == keysLength * maxRetriesPerKeyCycle

\* Math.floor((attempt - 1) / keys.length) + 1
currentCycleIsAttempt == attempt
currentCycle == ((attempt - 1) \div keysLength) + 1

\* executeWithRetry's delay: RetryInfo's seconds + 500 ms when the payload has
\* a retryDelay with digits, 2000 ms x cycle otherwise
GeminiDelay(resp) ==
    IF resp.retry[1] = "digits"
    THEN resp.retry[2] * MsPerSecond + RetryBufferMs
    ELSE BackoffBaseMs * currentCycle

\* executeOpenRouterWithRetry's delay
OpenRouterDelay == BackoffBaseMs * currentCycle

\* the executors' first test: keys.length === 0
noKeysIgnored == FALSE
noKeys == Len(userApiKeys) = 0

\* ai.models.generateContent(params): route by model name, then the executor's
\* prologue up to its retry loop
Generate(modelName, search) ==
    /\ pc = "idle"
    /\ provider' = IF isOpenRouterModel(modelName) THEN "openrouter" ELSE "gemini"
    /\ isSearchRequest' = search
    /\ keysLength' = Len(userApiKeys)
    /\ IF noKeys
       THEN /\ pc' = "done"
            /\ outcome' = "NoCredentials"
            /\ attempt' = attempt
       ELSE /\ pc' = IF isOpenRouterModel(modelName) /\ search THEN "websearch" ELSE "loop"
            /\ outcome' = outcome
            /\ attempt' = 1
    /\ UNCHANGED <<key, error, lastError, delayMs, attemptsMade, resetCalls, all429,
                   poolReplaced, webSearches, rotVars>>
    /\ UNCHANGED <<planVars, searchVars, sanVars, settingsVars>>

\* OpenRouter, a search request: await performWebSearch(searchQuery) before the
\* loop.  The search may make a generate call of its own (processSearchQuery),
\* which leaves the cursor fresh when it succeeds and 3 x pool size further
\* when it fails; failures of the search are caught.
NestedCalls == {"none", "succeeded", "failed"}
WebSearchStep(nested) ==
    /\ pc = "websearch"
    /\ webSearches' = webSearches + 1
    /\ currentKeyIndex' =
          CASE nested = "none" -> currentKeyIndex
            [] nested = "succeeded" /\ Len(userApiKeys) > 0 -> FreshIndex
            [] nested = "failed" ->
                 CursorAfter(currentKeyIndex, Len(userApiKeys),
                             Len(userApiKeys) * maxRetriesPerKeyCycle)
            [] OTHER -> currentKeyIndex
    /\ pc' = "loop"
    /\ UNCHANGED <<userApiKeys, hasEnvKey, returned, served>>
    /\ UNCHANGED <<provider, isSearchRequest, keysLength, attempt, key, error, lastError,
                   delayMs, outcome, attemptsMade, resetCalls, all429, poolReplaced>>
    /\ UNCHANGED <<planVars, searchVars, sanVars, settingsVars>>

\* the loop is over: throw AllKeysFailedError(lastError)
LoopExit ==
    /\ pc = "loop"
    /\ attempt > maxAttempts
    /\ pc' = "done"
    /\ outcome' = "AllKeysFailed"
    /\ UNCHANGED <<provider, isSearchRequest, keysLength, attempt, key, error, lastError,
                   delayMs, attemptsMade, resetCalls, all429, poolReplaced,
                   webSearches, rotVars>>
    /\ UNCHANGED <<planVars, searchVars, sanVars, settingsVars>>

\* top of an iteration: draw the key and send the request.  With no key
\* (the pool was emptied) the iteration and, synchronously, every later one is
\* skipped by `continue`, and the loop ends.
BeginAttempt ==
    /\ pc = "loop"
    /\ attempt <= maxAttempts
    /\ getNextApiKey
    /\ key' = Returned(userApiKeys, currentKeyIndex')
    /\ IF key' = Undefined
       THEN /\ attempt' = maxAttempts + 1
            /\ pc' = "done"
            /\ outcome' = "AllKeysFailed"
            /\ UNCHANGED attemptsMade
       ELSE /\ pc' = "primary"
            /\ attemptsMade' = attemptsMade + 1
            /\ UNCHANGED <<attempt, outcome>>
    /\ UNCHANGED <<userApiKeys, hasEnvKey, served, returned>>
    /\ UNCHANGED <<provider, isSearchRequest, keysLength, error, lastError, delayMs,
                   resetCalls, all429, poolReplaced, webSearches>>
    /\ UNCHANGED <<planVars, searchVars, sanVars, settingsVars>>

\* a call came back usable: reset the rotation and return the response
Succeed ==
    /\ reset
    /\ resetCalls' = resetCalls + 1
    /\ pc' = "done"
    /\ outcome' = "ok"
    /\ all429' = FALSE
    /\ UNCHANGED <<userApiKeys, hasEnvKey, returned, served>>
    /\ UNCHANGED <<provider, isSearchRequest, keysLength, attempt, key, error, lastError,
                   delayMs, attemptsMade, poolReplaced, webSearches>>
    /\ UNCHANGED <<planVars, searchVars, sanVars, settingsVars>>

\* the iteration ends: attempt++, and its block-scoped key, error and delay
\* are gone
NextIteration ==
    /\ pc' = "loop"
    /\ attempt' = attempt + 1
    /\ key' = Undefined
    /\ error' = NoError
    /\ delayMs' = 0

\* the catch block's tail: sleep after a rate limit, else go on at once
AfterFailureAlwaysSleeps(rateLimited, delay) ==
    /\ pc' = "sleep"
    /\ delayMs' = delay
    /\ UNCHANGED <<attempt, key, error>>
AfterFailure(rateLimited, delay) ==
    IF rateLimited
    THEN /\ pc' = "sleep"
         /\ delayMs' = delay
         /\ UNCHANGED <<attempt, key, error>>
    ELSE NextIteration

\* the primary call of the attempt settles
PrimaryOk ==
    /\ pc = "primary"
    /\ Succeed

PrimaryFails(resp) ==
    /\ pc = "primary"
    /\ ~resp.ok
    /\ all429' = (all429 /\ resp.status = HttpTooManyRequests)
    /\ IF provider = "gemini"
       THEN /\ lastError' = ErrorOf(resp, "primary")
            /\ AfterFailure(resp.status = HttpTooManyRequests,
                            GeminiDelay(resp))
       ELSE /\ error' = ErrorOf(resp, "primary")
            /\ pc' = "fallback"
            /\ UNCHANGED <<lastError, attempt, delayMs, key>>
    /\ UNCHANGED <<provider, isSearchRequest, keysLength, outcome, attemptsMade,
                   resetCalls, poolReplaced, webSearches, rotVars>>
    /\ UNCHANGED <<planVars, searchVars, sanVars, settingsVars>>

\* OpenRouter: the /completions fallback of the attempt settles
FallbackOkGoesOn ==
    /\ pc = "fallback"
    /\ NextIteration
    /\ all429' = FALSE
    /\ UNCHANGED <<provider, isSearchRequest, keysLength, lastError, outcome, attemptsMade,
                   resetCalls, poolReplaced, webSearches, rotVars>>
    /\ UNCHANGED <<planVars, searchVars, sanVars, settingsVars>>
FallbackOk ==
    /\ pc = "fallback"
    /\ Succeed

FallbackFails(resp) ==
    /\ pc = "fallback"
    /\ ~resp.ok
    /\ all429' = (all429 /\ resp.status = HttpTooManyRequests)
    /\ lastError' = error
    /\ AfterFailure(error.status = HttpTooManyRequests, OpenRouterDelay)
    /\ UNCHANGED <<provider, isSearchRequest, keysLength, outcome, attemptsMade,
                   resetCalls, poolReplaced, webSearches, rotVars>>
    /\ UNCHANGED <<planVars, searchVars, sanVars, settingsVars>>

\* the backoff timer fires: next iteration
Wake ==
    /\ pc = "sleep"
    /\ NextIteration
    /\ UNCHANGED <<provider, isSearchRequest, keysLength, lastError,
                   outcome, attemptsMade, resetCalls, all429, poolReplaced,
                   webSearches, rotVars>>
    /\ UNCHANGED <<planVars, searchVars, sanVars, settingsVars>>

\* the caller takes the result; the executor is free for the next call
Return ==
    /\ pc = "done"
    /\ pc' = "idle"
    /\ provider' = "none"
    /\ isSearchRequest' = FALSE
    /\ keysLength' = 0
    /\ attempt' = 0
    /\ key' = Undefined
    /\ error' = NoError
    /\ lastError' = NoError
    /\ delayMs' = 0
    /\ outcome' = "none"
    /\ attemptsMade' = 0
    /\ resetCalls' = 0
    /\ all429' = TRUE
    /\ poolReplaced' = FALSE
    /\ webSearches' = 0
    /\ UNCHANGED rotVars
    /\ UNCHANGED <<planVars, searchVars, sanVars, settingsVars>>

(***************************************************************************)
(* The planner debate loop                                                 *)
(***************************************************************************)
\* JavaScript values as the planner meets them: a string, null/undefined, or
\* any other JSON value (number, boolean, object), carried with its JSON text
Str(text) == [t |-> "string", s |-> text]
Other(json) == [t |-> "other", s |-> json]
Null == [t |-> "null", s |-> ""]

\* the queries field of a raw turn: an array of values, or anything else
Arr(elems) == [isArray |-> TRUE, elems |-> elems]
NotArray == [isArray |-> FALSE, elems |-> <<>>]

\* String.prototype.trim and toLowerCase on the strings of the model
trim(text) == CASE text = " Finish " -> "Finish"
                [] text = " q2 " -> "q2"
                [] text = " " -> ""
                [] OTHER -> text
toLowerCase(text) == CASE text = "Finish" -> "finish"
                       [] text = "SEARCH" -> "search"
                       [] text \in {"Gold", "GOLD"} -> "gold"
                       [] text = "DuckDuckGo" -> "duckduckgo"
                       [] text = "Reddit" -> "reddit"
                       [] text = "Search" -> "search"
                       [] text = "Search:" -> "search:"
                       [] text = "Google" -> "google"
                       [] text = "Bing" -> "bing"
                       [] text = "Financial" -> "financial"
                       [] text = "News:" -> "news:"
                       [] text = "Market" -> "market"
                       [] text = "Data:" -> "data:"
                       [] text = "Latest" -> "latest"
                       [] text = "Wikipedia" -> "wikipedia"
                       [] OTHER -> text

\* JSON.stringify of a value that is not a string
stringify(v) == v.s

\* what parseJsonFromMarkdown hands to the sanitizer: null, a JSON scalar, or
\* an object with the four fields of a turn (an absent field reads undefined)
RawNull == [kind |-> "null", thought |-> Null, action |-> Null,
            queries |-> NotArray, finish_reason |-> Null]
RawScalar == [kind |-> "scalar", thought |-> Null, action |-> Null,
              queries |-> NotArray, finish_reason |-> Null]
RawTurn(th, ac, qs, fr) == [kind |-> "object", thought |-> th, action |-> ac,
                            queries |-> qs, finish_reason |-> fr]

\* the sanitizer's results: null, or the four normalised fields
NoQueries == [isNull |-> TRUE, elems |-> <<>>]
NoReason == [isNull |-> TRUE, s |-> ""]
NullTurn == [isNull |-> TRUE, thought |-> "", action |-> "",
             queries |-> NoQueries, finish_reason |-> NoReason]

allowed == {"search", "continue_debate", "finish"}
MaxQueries == 4

SliceAll(seq, n) == seq
Slice(seq, n) == SubSeq(seq, 1, IF Len(seq) < n THEN Len(seq) ELSE n)

\* raw.queries.map(stringify unless string).map(trim).filter(non-empty).slice(0, 4),
\* null when nothing is left or raw.queries is no array
sanitizeQueriesUntrimmed(raw) ==
    IF ~raw.queries.isArray THEN NoQueries
    ELSE LET asStrings == [i \in 1..Len(raw.queries.elems) |->
                              LET q == raw.queries.elems[i]
                              IN IF q.t = "string" THEN q.s ELSE stringify(q)]
             kept == Slice(FilterNonEmpty(asStrings), MaxQueries)
         IN IF Len(kept) = 0 THEN NoQueries ELSE [isNull |-> FALSE, elems |-> kept]
sanitizeQueries(raw) ==
    IF ~raw.queries.isArray THEN NoQueries
    ELSE LET asStrings == [i \in 1..Len(raw.queries.elems) |->
                              LET q == raw.queries.elems[i]
                              IN IF q.t = "string" THEN q.s ELSE stringify(q)]
             trimmed == [i \in 1..Len(asStrings) |-> trim(asStrings[i])]
             kept == Slice(FilterNonEmpty(trimmed), MaxQueries)
         IN IF Len(kept) = 0 THEN NoQueries ELSE [isNull |-> FALSE, elems |-> kept]

sanitizePlannerTurn(raw) ==
    IF raw.kind # "object" THEN NullTurn
    ELSE IF raw.thought.t = "null" THEN NullTurn
    ELSE LET thought == IF raw.thought.t = "string" THEN raw.thought.s
                        ELSE stringify(raw.thought)
             rawAction == IF raw.action.t = "string"
                          THEN toLowerCase(trim(raw.action.s)) ELSE ""
             action == IF rawAction \in allowed THEN rawAction ELSE "continue_debate"
             finish_reason ==
                 IF raw.finish_reason.t = "null" THEN NoReason
                 ELSE [isNull |-> FALSE,
                       s |-> IF raw.finish_reason.t = "string" THEN raw.finish_reason.s
                             ELSE stringify(raw.finish_reason)]
         IN [isNull |-> FALSE, thought |-> thought, action |-> action,
             queries |-> sanitizeQueries(raw), finish_reason |-> finish_reason]

\* the model's replies to a planner prompt: the text is blank or not, and
\* parses to nothing, to a scalar, or to an object
RawTurns ==
    LET thoughts == {Null, Str(""), Str("t"), Other("{}")}
        actions == {Str("search"), Str(" Finish "), Str("continue_debate"),
                    Str("summarize"), Other("1"), Null}
        queries == {NotArray, Arr(<<>>), Arr(<<Str(" ")>>),
                    Arr(<<Str("q1"), Str(" q2 "), Other("{}")>>),
                    Arr(<<Str("q1"), Str(" q2 "), Str("q3"), Str("q4"), Str("q5")>>)}
        reasons == {Null, Str(""), Str("done"), Other("{}")}
    IN {RawTurn(th, Str("continue_debate"), NotArray, Null) : th \in thoughts}
       \cup {RawTurn(Str("t"), ac, NotArray, Null) : ac \in actions}
       \cup {RawTurn(Str("t"), Str("search"), qs, Null) : qs \in queries}
       \cup {RawTurn(Str("t"), Str(" Finish "), Arr(<<Str("q1")>>), fr) : fr \in reasons}
       \cup {RawTurn(Other("{}"), Str("search"), Arr(<<Str(" q2 ")>>), Str("done"))}
PlannerResponses ==
    {[blank |-> TRUE, raw |-> RawNull],
     [blank |-> FALSE, raw |-> RawNull],
     [blank |-> FALSE, raw |-> RawScalar]}
    \cup {[blank |-> FALSE, raw |-> r] : r \in RawTurns}

\* the research log: persona thoughts and other updates
Thought(persona) == [type |-> "thought", persona |-> persona]
SearchUpdate == [type |-> "search", persona |-> Undefined]
HistoryEntries == {Thought("Alpha"), Thought("Beta"), SearchUpdate}
Histories == SeqsUpTo(HistoryEntries, MaxHistory)

\* the reconstruction loop, from index i (counting from 0) downwards:
\* unshift the persona thoughts until another update is met; lastPersona is
\* the persona of the first one met
ReconstructNothing(history, i, conversation, last) ==
    [conversation |-> conversation, lastPersona |-> last]
RECURSIVE Reconstruct(_, _, _, _)
Reconstruct(history, i, conversation, last) ==
    IF i < 0 THEN [conversation |-> conversation, lastPersona |-> last]
    ELSE LET update == At(history, i)
         IN IF update.type = "thought" /\ update.persona # Undefined
            THEN Reconstruct(history, i - 1, <<update.persona>> \o conversation,
                             IF last = Undefined THEN update.persona ELSE last)
            ELSE [conversation |-> conversation, lastPersona |-> last]

\* lastPersona === 'Alpha' ? 'Beta' : 'Alpha'
FirstSpeakerAlpha(last) == "Alpha"
FirstSpeaker(last) == IF last = "Alpha" THEN "Beta" ELSE "Alpha"
\* (nextPersona === 'Alpha') ? 'Beta' : 'Alpha'
SamePersona(persona) == persona
OtherPersona(persona) == IF persona = "Alpha" THEN "Beta" ELSE "Alpha"

\* the loop condition
withinRoundsInclusive == debateTurns <= maxDebateRounds
withinRounds == debateTurns < maxDebateRounds

\* debateTurns++
TurnCountSkipping(n) == n + 2
TurnCount(n) == n + 1

\* the escape valve: consecutiveFinishAttempts >= 2
ConsensusThreshold == 2
consensusAfterThree(attempts) == attempts >= ConsensusThreshold + 1
consensus(attempts) == attempts >= ConsensusThreshold

NoResult == [kind |-> "none", should_finish |-> FALSE, search_queries |-> <<>>,
             finish_reason |-> Undefined]
Returns(finish, queries, reason) ==
    [kind |-> "returned", should_finish |-> finish, search_queries |-> queries,
     finish_reason |-> reason]
Throws(what) == [kind |-> "thrown", should_finish |-> FALSE, search_queries |-> <<>>,
                 finish_reason |-> what]
TimedOutReason == "Planning debate timed out."
DecidedToFinish(persona) ==
    IF persona = "Alpha" THEN "Alpha decided to finish." ELSE "Beta decided to finish."

NoUpdate == [persona |-> Undefined, note |-> "none"]
Update(persona, note) == [persona |-> persona, note |-> note]
NoDecision == [action |-> "none", turn |-> 0, returned |-> FALSE]

PlanIdle ==
    /\ pPc = "idle"
    /\ minCycles = 0
    /\ maxDebateRounds = 0
    /\ maxCycles = 0
    /\ searchCycles = 0
    /\ researchHistory = <<>>
    /\ currentConversation = <<>>
    /\ lastPersona = Undefined
    /\ nextPersona = "Alpha"
    /\ debateTurns = 0
    /\ consecutiveFinishAttempts = 0
    /\ parsedResponse = NullTurn
    /\ plannerResult = NoResult
    /\ modelRequests = 0
    /\ speakers = <<>>
    /\ updatesCount = 0
    /\ lastUpdate = NoUpdate
    /\ appended = <<>>
    /\ lastDecision = NoDecision
    /\ prevDecision = "none"
    /\ finishBefore = FALSE
    /\ allContinue = TRUE

(***************************************************************************)
(* The web search aggregator                                               *)
(*                                                                         *)
(* A string is the sequence of its words (separated by single blanks).     *)
(***************************************************************************)
\* a JavaScript value met as a search term: a string, or another JSON value
\* carried with the text String() gives it
Text(words) == [t |-> "string", w |-> words]
NonText(json) == [t |-> "other", w |-> <<json>>]

\* String(value), as template literals and encodeURIComponent coerce
String(v) == v.w

\* a lone surrogate code unit (what is left of a cut emoji): not a word
\* character, and encodeURIComponent throws URIError on it
LoneSurrogate == "<D800>"
\* a single word of 45 letters
LongWord == "pneumonoultramicroscopicsilicovolcanoconiosis"

\* the number of characters of a word
Chars(word) ==
    CASE word = LongWord -> 45
      [] word = "" -> 0
      [] word = LoneSurrogate -> 1
      [] word = "the" -> 3
      [] word \in {"Gold", "gold", "GOLD"} -> 4
      [] OTHER -> 5

RECURSIVE StrLen(_)
StrLen(w) ==
    IF w = <<>> THEN 0
    ELSE IF Len(w) = 1 THEN Chars(w[1])
    ELSE Chars(w[1]) + 1 + StrLen(Tail(w))

\* string.substring(0, n): the string itself when it has at most n
\* characters (the only case the calls of the model meet), else its words
\* that fit whole
RECURSIVE Substring(_, _)
Substring(w, n) ==
    IF StrLen(w) <= n THEN w ELSE Substring(SubSeq(w, 1, Len(w) - 1), n)

lowerCase(w) == [i \in 1..Len(w) |-> toLowerCase(w[i])]

\* haystack.includes(needle)
includes(haystack, needle) ==
    \E start \in 1..(Len(haystack) + 1) :
        /\ start + Len(needle) - 1 <= Len(haystack)
        /\ \A i \in 1..Len(needle) : haystack[start + i - 1] = needle[i]

\* encodeURIComponent: throws on a lone surrogate, else the words joined by %20
encodable(w) == \A i \in 1..Len(w) : w[i] # LoneSurrogate
RECURSIVE encodeURIComponent(_)
encodeURIComponent(w) ==
    IF Len(w) <= 1 THEN w ELSE <<w[1], "%20">> \o encodeURIComponent(Tail(w))

Url(base, text) == [base |-> base, q |-> encodeURIComponent(text)]
NoUrl == [base |-> "", q |-> <<>>]

ShortQueryChars == 30
ShortQueryWords == 3
MaxSearchTerms == 4
SearchedTerms == 3
MinWordChars == 2
TermChars == 50
FallbackTermChars == 30
FallbackTerms == 2
AdapterResults == 3

StopWords == {"please", "write", "prepare", "create", "make", "give", "provide", "show",
              "tell", "explain", "full", "complete", "comprehensive", "detailed",
              "report", "analysis", "how", "what", "when", "where", "why", "the", "and",
              "for", "with"}

\* toLowerCase, non-word characters to blanks, split, drop the words of at
\* most 2 characters and the filler words
keyWords(w) ==
    LET usable(word) == /\ word # LoneSurrogate
                        /\ Chars(word) > MinWordChars
                        /\ word \notin StopWords
    IN SelectSeq(lowerCase(w), usable)

\* the queries: blank or not, padded with blanks or not; a string is cut at
\* its single blanks, so two blanks in a row leave an empty piece
QueryWords == {"Gold"}
Queries ==
    {[padded |-> FALSE, w |-> w] : w \in SeqsUpTo(QueryWords, MaxQueryWords)}
    \cup {[padded |-> TRUE, w |-> w] : w \in {<<>>, <<"Gold">>}}
    \cup {[padded |-> FALSE, w |-> w] :
             w \in {<<"the">>, <<"the", "the", "the", "the">>, <<LongWord>>,
                    <<"the", LoneSurrogate, LongWord>>,
                    <<LoneSurrogate>>, <<"Gold", LoneSurrogate>>,
                    <<LoneSurrogate, "Gold", "Gold", LoneSurrogate>>,
                    <<"Gold", "", "the">>, <<"Gold", "", "the", "the">>}}

\* the model's reply to processSearchQuery: the call rejects, the text holds
\* no JSON, or it parses to an object whose searchTerms is anything
TermLists ==
    LET gold == Text(<<"gold">>)
        capital == Text(<<"Gold">>)
        number == NonText("123")
        surrogate == Text(<<LoneSurrogate>>)
    IN {<<gold>>,
        <<gold, capital>>,
        <<gold, gold>>,
        <<surrogate>>,
        <<surrogate, surrogate, surrogate, gold>>,
        <<number, gold>>,
        <<number>>,
        <<gold, surrogate, surrogate, number>>,
        <<surrogate, gold, surrogate, gold, number>>}
LlmReplies ==
    {[kind |-> "rejected", searchTerms |-> NotArray],
     [kind |-> "unparsable", searchTerms |-> NotArray],
     [kind |-> "object", searchTerms |-> NotArray],
     [kind |-> "object", searchTerms |-> Arr(<<>>)]}
    \cup {[kind |-> "object", searchTerms |-> Arr(terms)] : terms \in TermLists}

\* processSearchQuery's catch block: the key words and their combinations
simpleTerms(original) ==
    LET words == keyWords(original)
        first == IF Len(words) > 0 THEN <<Text(<<words[1]>>)>> ELSE <<>>
        second == IF Len(words) > 1 THEN <<Text(<<words[1], words[2]>>)>> ELSE <<>>
        third == IF Len(words) > 2 THEN <<Text(<<words[1], words[3]>>)>> ELSE <<>>
        terms == first \o second \o third
    IN IF Len(terms) = 0 THEN <<Text(Substring(original, TermChars))>> ELSE terms

\* the short-query branch: the query as its only term, its first piece, and
\* the other pieces joined by blanks
passThrough(original) ==
    [searchTerms |-> <<Text(original)>>,
     primaryTerm |-> original[1],
     context |-> Tail(original)]

\* the short-query test
isShort(original) == StrLen(original) <= ShortQueryChars /\ Len(original) <= ShortQueryWords

\* processSearchQuery's result for a reply
processedTerms(original, reply) ==
    IF reply.kind = "object" /\ reply.searchTerms.isArray
       /\ Len(reply.searchTerms.elems) > 0
    THEN Slice(reply.searchTerms.elems, MaxSearchTerms)
    ELSE simpleTerms(original)

\* a search result
Result(title, url, snippet, source) ==
    [title |-> title, url |-> url, snippet |-> snippet, source |-> source]

searchEngines == <<"Wikipedia", "Academic", "DuckDuckGo", "Bing", "Reddit", "Baidu",
                   "Yandex", "News">>
EngineNames == {searchEngines[i] : i \in 1..Len(searchEngines)}
NetworkEngines == {"Wikipedia", "Academic"}

\* searchEngineFetcher for the engines that go through fetchTextWithFallbacks:
\* the synthetic JSON gives DuckDuckGo and Reddit one result, and the XML and
\* HTML readers nothing
proxyFetcher(term, engine) ==
    LET text == String(term)
        message == IF text = <<>> THEN <<"Content", "unavailable">>
                   ELSE <<"Search", "attempted", "for">> \o text \o <<"unavailable">>
    IN IF ~encodable(text) THEN <<>>
       ELSE CASE engine = "DuckDuckGo" ->
                   <<Result(<<"DuckDuckGo", "Search:">> \o text,
                            Url("https://duckduckgo.com/?q=", text), message,
                            "DuckDuckGo")>>
              [] engine = "Reddit" ->
                   <<Result(<<"Reddit", "Search:">> \o text,
                            Url("https://www.reddit.com/search/?q=", text), message,
                            "Reddit")>>
              [] OTHER -> <<>>

\* what the network can hand to the Wikipedia and arXiv fetchers: entries
\* with a title, a url and a description, any of them empty
Entry(title, url, text) == [title |-> title, url |-> url, text |-> text]
WikipediaPayload ==
    <<Entry(<<"Gold">>, Url("https://en.wikipedia.org/wiki/", <<"Gold">>), <<"metal">>),
      Entry(<<>>, Url("https://en.wikipedia.org/wiki/", <<"the">>), <<>>),
      Entry(<<"GOLD">>, Url("https://en.wikipedia.org/wiki/", <<"GOLD">>), <<>>),
      Entry(<<"the">>, Url("https://en.wikipedia.org/wiki/", <<"the">>), <<>>)>>
AcademicPayload ==
    <<Entry(<<"Gold">>, Url("http://arxiv.org/abs/", <<"1">>), <<"gold", "the">>),
      Entry(<<>>, NoUrl, <<>>),
      Entry(<<>>, NoUrl, <<>>)>>
\* an Atom feed whose entries lack a title, a title and an id, an id
PartialPayload ==
    <<Entry(<<>>, Url("http://arxiv.org/abs/", <<"1">>), <<"gold">>),
      Entry(<<>>, NoUrl, <<>>),
      Entry(<<"Gold">>, NoUrl, <<"gold", "the">>)>>
Payloads(engine) ==
    IF engine = "Wikipedia" THEN {<<>>, WikipediaPayload}
    ELSE {<<>>, AcademicPayload, PartialPayload}

\* how a network fetch ends: a payload is read; the fetch or the parse
\* fails inside searchEngineFetcher; the 15 s timer of withTimeout wins
NotSettled == [kind |-> "pending", payload |-> <<>>]
Outcomes(engine) ==
    {[kind |-> "payload", payload |-> p] : p \in Payloads(engine)}
    \cup {[kind |-> "failed", payload |-> <<>>], [kind |-> "timeout", payload |-> <<>>]}

\* the Wikipedia branch: the first 3 titles that are not empty and have a url
wikipediaResults(payload) ==
    LET kept(entry) == entry.title # <<>> /\ entry.url # NoUrl
        toResult(entry) == Result(entry.title, entry.url,
                                  IF entry.text = <<>> THEN <<"Wikipedia", "article">>
                                  ELSE entry.text,
                                  "Wikipedia")
        first == SelectSeq(Slice(payload, AdapterResults), kept)
    IN [i \in 1..Len(first) |-> toResult(first[i])]

\* the arXiv branch: every entry, whatever it holds
academicResults(payload) ==
    [i \in 1..Len(payload) |->
        Result(payload[i].title, payload[i].url, payload[i].text \o <<"...">>, "arXiv")]

\* the Fallback generator: direct links to search engines for the key words
\* of the query; encodeURIComponent(query) comes first, for this engine too
fallbackResults(original) ==
    IF ~encodable(original) THEN <<>>
    ELSE
    LET words == keyWords(original)
        primaryTerm == IF Len(words) > 0 THEN words[1] ELSE original[1]
        terms == IF Len(words) > 0
                 THEN <<<<words[1]>>, Slice(words, 2)>>
                 ELSE <<Substring(original, FallbackTermChars)>>
        financial == includes(<<primaryTerm>>, <<"gold">>)
        links(term, index) ==
            <<Result(<<"Search">> \o term \o <<"on", "Google">>,
                     Url("https://www.google.com/search?q=", term),
                     <<"Direct", "search", "for">> \o term, "Google Search"),
              Result(<<"Search">> \o term \o <<"on", "Bing">>,
                     Url("https://www.bing.com/search?q=", term),
                     <<"Direct", "search", "for">> \o term, "Bing Search")>>
            \o (IF index = 0 /\ financial
                THEN <<Result(<<"Financial", "News:">> \o term,
                              Url("https://finance.yahoo.com/search?p=", term),
                              <<"Search", "for">> \o term, "Yahoo Finance"),
                       Result(<<"Market", "Data:">> \o term,
                              Url("https://www.marketwatch.com/search?q=", term),
                              <<"Find">> \o term, "MarketWatch")>>
                ELSE <<>>)
        used == Slice(terms, FallbackTerms)
    IN IF ~\A i \in 1..Len(used) : encodable(used[i]) THEN <<>>
       ELSE links(used[1], 0) \o (IF Len(used) > 1 THEN links(used[2], 1) ELSE <<>>)

\* what the engine's promise in performWebSearch resolves to: the results
\* read from the payload, and [] from either catch block
adapterResultsWithError(engine, settled) ==
    IF settled.kind = "payload"
    THEN IF engine = "Wikipedia" THEN wikipediaResults(settled.payload)
         ELSE academicResults(settled.payload)
    ELSE <<Result(<<"Request", "timeout">>, NoUrl, <<>>, engine)>>
adapterResults(engine, settled) ==
    IF settled.kind = "payload"
    THEN IF engine = "Wikipedia" THEN wikipediaResults(settled.payload)
         ELSE academicResults(settled.payload)
    ELSE <<>>

\* the duplicate test of the result filter
sameUrl(r, result) == r.url = result.url
sameResult(r, result) ==
    \/ r.url = result.url
    \/ lowerCase(r.title) = lowerCase(result.title) /\ r.source = result.source

\* self.findIndex(test), counting from 1; 0 when there is none
findIndex(self, test(_)) ==
    IF \E i \in 1..Len(self) : test(self[i])
    THEN CHOOSE i \in 1..Len(self) : test(self[i]) /\ \A j \in 1..(i - 1) : ~test(self[j])
    ELSE 0

\* keep the elements whose index passes
RECURSIVE filterIndex(_, _, _)
filterIndex(self, keep(_), i) ==
    IF i > Len(self) THEN <<>>
    ELSE (IF keep(i) THEN <<self[i]>> ELSE <<>>) \o filterIndex(self, keep, i + 1)

uniqueResults(results) ==
    LET keep(index) ==
            LET same(r) == sameResult(r, results[index])
            IN findIndex(results, same) = index
    IN filterIndex(results, keep, 1)

uniqueCitations(citations) ==
    LET keep(index) ==
            LET same(c) == c.url = citations[index].url
            IN findIndex(citations, same) = index
    IN filterIndex(citations, keep, 1)

\* the relevance of a result: per search term, 2 for the title and 1 for the
\* snippet that includes it
RECURSIVE relevance(_, _)
relevance(result, terms) ==
    IF terms = <<>> THEN 0
    ELSE LET termLower == lowerCase(Head(terms).w)
         IN (IF includes(lowerCase(result.title), termLower) THEN 2 ELSE 0)
            + (IF includes(lowerCase(result.snippet), termLower) THEN 1 ELSE 0)
            + relevance(result, Tail(terms))

\* Array.prototype.sort with (a, b) => bRelevance - aRelevance: stable,
\* highest relevance first
sortKeepsOrder(results, terms) == results
RECURSIVE sortByRelevance(_, _)
sortByRelevance(results, terms) ==
    IF results = <<>> THEN <<>>
    ELSE LET best == CHOOSE i \in 1..Len(results) :
                        /\ \A j \in 1..Len(results) :
                              relevance(results[j], terms) <= relevance(results[i], terms)
                        /\ \A j \in 1..(i - 1) :
                              relevance(results[j], terms) < relevance(results[i], terms)
             rest == [j \in 1..(Len(results) - 1) |->
                         IF j < best THEN results[j] ELSE results[j + 1]]
         IN <<results[best]>> \o sortByRelevance(rest, terms)

\* the comparator runs when there are two results to compare, and
\* term.toLowerCase() throws TypeError on a term that is no string
sortThrows(results, terms) ==
    /\ Len(results) >= 2
    /\ \E i \in 1..Len(terms) : terms[i].t # "string"

CitationOfNothing(result) == [source |-> result.source, title |-> result.title, url |-> NoUrl]
Citation(result) == [source |-> result.source, title |-> result.title, url |-> result.url]

NoQuery == [padded |-> FALSE, w |-> <<>>]
NoOutput == [kind |-> "none", results |-> <<>>, citations |-> <<>>]
Output(results, citations) == [kind |-> "returned", results |-> results,
                               citations |-> citations]
TypeError == [kind |-> "thrown", results |-> <<>>, citations |-> <<>>]
NoTermResults == [engine \in EngineNames |-> <<>>]

SearchIdle ==
    /\ sPc = "idle"
    /\ query = NoQuery
    /\ originalQuery = <<>>
    /\ searchTerms = <<>>
    /\ termIndex = 0
    /\ pending = {}
    /\ termResults = NoTermResults
    /\ allResults = <<>>
    /\ allCitations = <<>>
    /\ sOut = NoOutput
    /\ llmCalls = 0
    /\ fallbackCalls = 0
    /\ adaptersEmpty = TRUE
    /\ canned = [engine \in NetworkEngines |-> NotSettled]
    /\ arrival = <<>>

(***************************************************************************)
(* sanitizePlannerTurn as a function of its argument                       *)
(***************************************************************************)
\* what JSON.parse can hand to the sanitizer: null, a scalar, or an object
\* whose four fields are each absent, null, a string or another value
RawInputs ==
    LET thoughts == {Null, Str(""), Str("t"), Other("{}")}
        actions == {Null, Str("search"), Str("SEARCH"), Str(" Finish "),
                    Str("continue_debate"), Str("summarize"), Other("1")}
        queries == {NotArray, Arr(<<>>), Arr(<<Str(" ")>>),
                    Arr(<<Str(" "), Other("{}"), Str("")>>),
                    Arr(<<Str("q1"), Str(" q2 "), Other("{}")>>),
                    Arr(<<Str("q1"), Str(" q2 "), Str("q3"), Str("q4"), Str("q5")>>)}
        reasons == {Null, Str(""), Str("done"), Other("{}")}
    IN {RawNull, RawScalar}
       \cup {RawTurn(th, ac, qs, fr) :
                th \in thoughts, ac \in actions, qs \in queries, fr \in reasons}

SanIdle ==
    /\ rawParsed = RawNull
    /\ sanitized = NullTurn
    /\ applied = FALSE

\* const parsedResponse = sanitizePlannerTurn(rawParsed)
Sanitize ==
    /\ ~applied
    /\ sanitized' = sanitizePlannerTurn(rawParsed)
    /\ applied' = TRUE
    /\ UNCHANGED <<rawParsed, rotVars, execVars, planVars, searchVars, settingsVars>>

\* the next value to sanitize
Parse(raw) ==
    /\ applied
    /\ rawParsed' = raw
    /\ sanitized' = NullTurn
    /\ applied' = FALSE
    /\ UNCHANGED <<rotVars, execVars, planVars, searchVars, settingsVars>>

(***************************************************************************)
(* The endpoint and the model overrides                                    *)
(***************************************************************************)
GEMINI_DEFAULT_API_BASE_URL == "https://generativelanguage.googleapis.com"
OPENROUTER_DEFAULT_API_BASE_URL == "https://openrouter.ai/api/v1"

\* url.includes('openrouter.ai')
includesOpenRouterAi(url) == url = OPENROUTER_DEFAULT_API_BASE_URL

\* two of the six roles of settings.modelOverrides, and the values an
\* override has: null, or a model name
Roles == {"planner", "synthesizer"}
NoOverride == "null"
\* override.includes('gemini')
includesGemini(override) == override \in {"gemini-2.5-pro", "google/gemini-2.5-flash"}

\* clearIncompatibleModelOverrides: the loop over the roles
clearIncompatibleModelOverrides(overrides, isOpenRouter) ==
    [role \in Roles |->
        LET override == overrides[role]
        IN IF override = NoOverride THEN override
           ELSE IF isOpenRouter /\ includesGemini(override) THEN NoOverride
           ELSE IF ~isOpenRouter /\ ~includesGemini(override) THEN NoOverride
           ELSE override]

SettingsIdle ==
    /\ apiBaseUrl = GEMINI_DEFAULT_API_BASE_URL
    /\ modelOverrides = [role \in Roles |-> NoOverride]
    /\ pendingClears = 0
    /\ switched = FALSE

\* setApiBaseUrl(url); localStorage.setItem throws or not
SetApiBaseUrl(url, storageThrows) ==
    LET oldUrl == apiBaseUrl
        newUrl == IF trim(url) = "" THEN GEMINI_DEFAULT_API_BASE_URL ELSE trim(url)
        changed == includesOpenRouterAi(oldUrl) # includesOpenRouterAi(newUrl)
        imports == ~hasEnvKey /\ ~storageThrows /\ changed
    IN /\ imports => pendingClears < MaxPendingClears
       /\ apiBaseUrl' = newUrl
       /\ pendingClears' = IF imports THEN pendingClears + 1 ELSE pendingClears
       /\ switched' = (switched \/ changed)
       /\ UNCHANGED <<modelOverrides, rotVars, execVars, planVars, searchVars, sanVars>>

\* the import promise resolves: settingsService.clearIncompatibleModelOverrides()
ImportResolves ==
    /\ pendingClears > 0
    /\ pendingClears' = pendingClears - 1
    /\ modelOverrides' = clearIncompatibleModelOverrides(modelOverrides,
                                                         includesOpenRouterAi(apiBaseUrl))
    /\ UNCHANGED <<apiBaseUrl, switched, rotVars, execVars, planVars, searchVars, sanVars>>

Init == RotInit /\ ExecIdle /\ PlanIdle /\ SearchIdle /\ SanIdle /\ SettingsIdle

RotatorNext ==
    \/ GetNextApiKey
    \/ Reset
    \/ \E ks \in KeyStrings : SetApiKeys(ks)

RotatorSpec == Init /\ [][RotatorNext]_vars

Next ==
    \/ \E m \in ModelNames, search \in BOOLEAN : Generate(m, search)
    \/ \E nested \in NestedCalls : WebSearchStep(nested)
    \/ BeginAttempt
    \/ LoopExit
    \/ PrimaryOk
    \/ \E resp \in Responses : PrimaryFails(resp)
    \/ FallbackOk
    \/ \E resp \in Responses : FallbackFails(resp)
    \/ Wake
    \/ Return
    \/ \E ks \in PoolStrings : SetApiKeys(ks)

Spec == Init /\ [][Next]_vars

\* generate calls one after another on a pool that nobody replaces
StableNext ==
    \/ \E m \in ModelNames, search \in BOOLEAN : Generate(m, search)
    \/ \E nested \in NestedCalls : WebSearchStep(nested)
    \/ BeginAttempt
    \/ LoopExit
    \/ PrimaryOk
    \/ \E resp \in Responses : PrimaryFails(resp)
    \/ FallbackOk
    \/ \E resp \in Responses : FallbackFails(resp)
    \/ Wake
    \/ Return

StableSpec == Init /\ [][StableNext]_vars

(***************************************************************************)
(* One planner call.  Its generate calls and its web-signals search are    *)
(* taken by their outcome and their effect on the rotation cursor.         *)
(***************************************************************************)
PlannerPools == {<<>>, <<"k1">>}

\* the minCycles setting: no floor, or a floor that only the largest number
\* of search cycles meets
MinCyclesSettings == {0, MaxSearchCycles}

\* the maxCycles setting: a cap that the largest number of search cycles
\* meets, or one that no call meets
MaxCyclesSettings == {MaxSearchCycles, MaxSearchCycles + 1}

PlannerInit ==
    /\ hasEnvKey = FALSE
    /\ userApiKeys \in PlannerPools
    /\ currentKeyIndex = FreshIndex
    /\ served = <<>>
    /\ returned = Undefined
    /\ ExecIdle
    /\ PlanIdle
    /\ SearchIdle
    /\ SanIdle
    /\ SettingsIdle

\* the cursor after a nested generate call
AfterGenerate(nested) ==
    CASE nested = "succeeded" /\ Len(userApiKeys) > 0 -> FreshIndex
      [] nested = "failed" ->
           CursorAfter(currentKeyIndex, Len(userApiKeys),
                       Len(userApiKeys) * maxRetriesPerKeyCycle)
      [] OTHER -> currentKeyIndex

planHistory == <<modelRequests, speakers, updatesCount, lastUpdate, appended, lastDecision,
                 prevDecision, finishBefore, allContinue>>
planSettings == <<minCycles, maxDebateRounds, maxCycles, searchCycles, researchHistory>>
planRest == <<userApiKeys, hasEnvKey, served, returned, execVars, searchVars, sanVars,
             settingsVars>>

\* onUpdate(update)
onUpdate(update) ==
    /\ updatesCount' = updatesCount + 1
    /\ lastUpdate' = update
    /\ appended' = Append(appended, update)

\* the call starts: settings, tail reconstruction, first speaker
PlannerStart(history, cycles, minC, maxRounds, maxC) ==
    /\ pPc = "idle"
    /\ minCycles' = minC
    /\ maxDebateRounds' = maxRounds
    /\ maxCycles' = maxC
    /\ searchCycles' = cycles
    /\ researchHistory' = history
    /\ LET tail == Reconstruct(history, Len(history) - 1, <<>>, Undefined)
       IN /\ currentConversation' = tail.conversation
          /\ lastPersona' = tail.lastPersona
          /\ nextPersona' = FirstSpeaker(tail.lastPersona)
          /\ debateTurns' = Len(tail.conversation)
    /\ consecutiveFinishAttempts' = 0
    /\ pPc' = "loop"
    /\ UNCHANGED <<parsedResponse, plannerResult, planHistory, currentKeyIndex, planRest>>

\* while (debateTurns < maxDebateRounds): checkSignal passes, debateTurns++,
\* await executeSingleSearch
TurnBegin ==
    /\ pPc = "loop"
    /\ withinRounds
    /\ debateTurns' = TurnCount(debateTurns)
    /\ pPc' = "signals"
    /\ UNCHANGED <<planSettings, currentConversation, lastPersona, nextPersona,
                   consecutiveFinishAttempts, parsedResponse, plannerResult,
                   planHistory, currentKeyIndex, planRest>>

\* the loop is over: the explanatory thought, and the timed-out result
TimeOut ==
    /\ pPc = "loop"
    /\ ~withinRounds
    /\ onUpdate(Update(Undefined, "timeout"))
    /\ plannerResult' = Returns(TRUE, <<>>, TimedOutReason)
    /\ pPc' = "done"
    /\ UNCHANGED <<planSettings, currentConversation, lastPersona, nextPersona,
                   debateTurns, consecutiveFinishAttempts, parsedResponse,
                   modelRequests, speakers, lastDecision, prevDecision, finishBefore,
                   allContinue, currentKeyIndex, planRest>>

\* the web-signals search settles (its failure is caught); the prompt is
\* built for nextPersona and the request is sent
WebSignals(nested) ==
    /\ pPc = "signals"
    /\ currentKeyIndex' = AfterGenerate(nested)
    /\ speakers' = Append(speakers, nextPersona)
    /\ modelRequests' = modelRequests + 1
    /\ pPc' = "request"
    /\ UNCHANGED <<planSettings, currentConversation, lastPersona, nextPersona,
                   debateTurns, consecutiveFinishAttempts, parsedResponse,
                   plannerResult, updatesCount, lastUpdate, appended, lastDecision,
                   prevDecision, finishBefore, allContinue, planRest>>

\* generateContent rejects: the error leaves the planner
GenerateFailsUnwrapped ==
    /\ pPc = "request"
    /\ IF Len(userApiKeys) = 0
       THEN /\ plannerResult' = Throws("NoCredentials")
            /\ UNCHANGED currentKeyIndex
       ELSE /\ plannerResult' = Throws("UpstreamHTTPError")
            /\ currentKeyIndex' = AfterGenerate("failed")
    /\ pPc' = "done"
    /\ UNCHANGED <<planSettings, currentConversation, lastPersona, nextPersona,
                   debateTurns, consecutiveFinishAttempts, parsedResponse,
                   planHistory, planRest>>
GenerateFails ==
    /\ pPc = "request"
    /\ IF Len(userApiKeys) = 0
       THEN /\ plannerResult' = Throws("NoCredentials")
            /\ UNCHANGED currentKeyIndex
       ELSE /\ plannerResult' = Throws("AllKeysFailed")
            /\ currentKeyIndex' = AfterGenerate("failed")
    /\ pPc' = "done"
    /\ UNCHANGED <<planSettings, currentConversation, lastPersona, nextPersona,
                   debateTurns, consecutiveFinishAttempts, parsedResponse,
                   planHistory, planRest>>

\* checkSignal() throws at one of its check-points: the top of the loop,
\* after the response, after the pacing sleep
CheckSignalCaught ==
    /\ \/ pPc = "request" /\ Len(userApiKeys) > 0
       \/ pPc \in {"pace", "pacefb"}
    /\ currentKeyIndex' = IF pPc = "request" THEN AfterGenerate("succeeded")
                          ELSE currentKeyIndex
    /\ nextPersona' = OtherPersona(nextPersona)
    /\ pPc' = "loop"
    /\ UNCHANGED <<planSettings, currentConversation, lastPersona, debateTurns,
                   consecutiveFinishAttempts, parsedResponse, plannerResult,
                   planHistory, planRest>>
CheckSignalRaises ==
    /\ \/ pPc = "loop" /\ withinRounds
       \/ pPc = "request" /\ Len(userApiKeys) > 0
       \/ pPc \in {"pace", "pacefb"}
    /\ currentKeyIndex' = IF pPc = "request" THEN AfterGenerate("succeeded")
                          ELSE currentKeyIndex
    /\ plannerResult' = Throws("Cancelled")
    /\ pPc' = "done"
    /\ UNCHANGED <<planSettings, currentConversation, lastPersona, nextPersona,
                   debateTurns, consecutiveFinishAttempts, parsedResponse,
                   planHistory, planRest>>

\* String((response.text || '').trim() || `Agent ... produced non-JSON output...`):
\* the text of the response trimmed, or the stock sentence when that is empty
fallbackThought(response) == IF response.blank THEN "placeholder" ELSE "fallback"

\* the response arrives and checkSignal passes: parse, sanitize, record the
\* persona's thought (the fallback thought for an unusable turn), and pace
Respond(response) ==
    /\ pPc = "request"
    /\ Len(userApiKeys) > 0
    /\ currentKeyIndex' = AfterGenerate("succeeded")
    /\ LET parsed == sanitizePlannerTurn(response.raw)
       IN IF parsed.isNull \/ parsed.thought = "" \/ parsed.action = ""
          THEN /\ onUpdate(Update(nextPersona, fallbackThought(response)))
               /\ parsedResponse' = NullTurn
               /\ allContinue' = FALSE
               /\ pPc' = "pacefb"
          ELSE /\ onUpdate(Update(nextPersona, "turn"))
               /\ parsedResponse' = parsed
               /\ allContinue' = (allContinue /\ parsed.action = "continue_debate")
               /\ pPc' = "pace"
    /\ currentConversation' = Append(currentConversation, nextPersona)
    /\ UNCHANGED <<planSettings, lastPersona, nextPersona, debateTurns,
                   consecutiveFinishAttempts, plannerResult, modelRequests, speakers,
                   lastDecision, prevDecision, finishBefore, planRest>>

\* the turn's decision goes into the history of the call
Decided(action) ==
    /\ lastDecision' = [action |-> action, turn |-> debateTurns,
                        returned |-> (pPc' = "done")]
    /\ prevDecision' = lastDecision.action
    /\ finishBefore' = (finishBefore \/ lastDecision.action = "finish")

\* unusable turn, after the sleep: checkSignal passes, switch persona, continue
PaceFallbackFails ==
    /\ pPc = "pacefb"
    /\ plannerResult' = Throws("MalformedDecision")
    /\ pPc' = "done"
    /\ Decided("malformed")
    /\ UNCHANGED <<planSettings, currentConversation, lastPersona, nextPersona, debateTurns,
                   consecutiveFinishAttempts, parsedResponse,
                   modelRequests, speakers, updatesCount, lastUpdate, appended,
                   allContinue, currentKeyIndex, planRest>>
PaceFallback ==
    /\ pPc = "pacefb"
    /\ nextPersona' = OtherPersona(nextPersona)
    /\ pPc' = "loop"
    /\ Decided("malformed")
    /\ UNCHANGED <<planSettings, currentConversation, lastPersona, debateTurns,
                   consecutiveFinishAttempts, parsedResponse, plannerResult,
                   modelRequests, speakers, updatesCount, lastUpdate, appended,
                   allContinue,
                   currentKeyIndex, planRest>>

\* searchCycles < minCycles
belowMaxCycles(cycles) == cycles < maxCycles
belowMinCycles(cycles) == cycles < minCycles

\* usable turn, after the sleep: checkSignal passes, then the finish counter,
\* the minimum-cycle rule and the decision
Evaluate ==
    /\ pPc = "pace"
    /\ LET finishes == parsedResponse.action = "finish"
           attempts == IF finishes THEN consecutiveFinishAttempts + 1 ELSE 0
           belowFloor == finishes /\ belowMinCycles(searchCycles)
           effectiveAction == IF belowFloor /\ ~consensus(attempts)
                              THEN "continue_debate" ELSE parsedResponse.action
       IN /\ consecutiveFinishAttempts' = attempts
          /\ IF belowFloor
             THEN IF consensus(attempts)
                  THEN onUpdate(Update(Undefined, "consensus"))
                  ELSE onUpdate(Update(nextPersona, "rule"))
             ELSE UNCHANGED <<updatesCount, lastUpdate, appended>>
          /\ IF effectiveAction = "finish"
             THEN /\ plannerResult' =
                        Returns(TRUE, <<>>,
                                IF parsedResponse.finish_reason.isNull
                                   \/ parsedResponse.finish_reason.s = ""
                                THEN DecidedToFinish(nextPersona)
                                ELSE parsedResponse.finish_reason.s)
                  /\ pPc' = "done"
                  /\ UNCHANGED nextPersona
             ELSE IF effectiveAction = "search" /\ ~parsedResponse.queries.isNull
                     /\ Len(parsedResponse.queries.elems) > 0
             THEN /\ plannerResult' = Returns(FALSE, parsedResponse.queries.elems, Undefined)
                  /\ pPc' = "done"
                  /\ UNCHANGED nextPersona
             ELSE /\ nextPersona' = OtherPersona(nextPersona)
                  /\ pPc' = "loop"
                  /\ UNCHANGED plannerResult
    /\ Decided(parsedResponse.action)
    /\ parsedResponse' = NullTurn
    /\ UNCHANGED <<planSettings, currentConversation, lastPersona, debateTurns,
                   modelRequests, speakers, allContinue, currentKeyIndex, planRest>>

\* the caller takes the result
PlannerReturn ==
    /\ pPc = "done"
    /\ pPc' = "idle"
    /\ minCycles' = 0
    /\ maxDebateRounds' = 0
    /\ maxCycles' = 0
    /\ searchCycles' = 0
    /\ researchHistory' = <<>>
    /\ currentConversation' = <<>>
    /\ lastPersona' = Undefined
    /\ nextPersona' = "Alpha"
    /\ debateTurns' = 0
    /\ consecutiveFinishAttempts' = 0
    /\ parsedResponse' = NullTurn
    /\ plannerResult' = NoResult
    /\ modelRequests' = 0
    /\ speakers' = <<>>
    /\ updatesCount' = 0
    /\ lastUpdate' = NoUpdate
    /\ appended' = <<>>
    /\ lastDecision' = NoDecision
    /\ prevDecision' = "none"
    /\ finishBefore' = FALSE
    /\ allContinue' = TRUE
    /\ UNCHANGED <<currentKeyIndex, planRest>>

\* the steps of a call in flight
PlannerStep ==
    \/ TurnBegin
    \/ TimeOut
    \/ \E nested \in NestedCalls : WebSignals(nested)
    \/ GenerateFails
    \/ CheckSignalRaises
    \/ \E response \in PlannerResponses : Respond(response)
    \/ PaceFallback
    \/ Evaluate

PlannerNext ==
    \/ /\ pPc = "idle"
       /\ \E history \in Histories, cycles \in 0..MaxSearchCycles,
             minC \in MinCyclesSettings, maxRounds \in 0..MaxRounds,
             maxC \in MaxCyclesSettings :
               PlannerStart(history, cycles, minC, maxRounds, maxC)
    \/ PlannerStep
    \/ PlannerReturn

PlannerSpec == PlannerInit /\ [][PlannerNext]_vars

\* every await of a call in flight settles: the requests have bounded
\* retries, the searches have timeouts, the pacing timer fires
PlannerFairSpec == PlannerSpec /\ WF_vars(PlannerStep)

(***************************************************************************)
(* One performWebSearch call                                               *)
(***************************************************************************)
SearchInit ==
    /\ hasEnvKey = FALSE
    /\ userApiKeys = <<"k1">>
    /\ currentKeyIndex = FreshIndex
    /\ served = <<>>
    /\ returned = Undefined
    /\ ExecIdle
    /\ PlanIdle
    /\ SearchIdle
    /\ SanIdle
    /\ SettingsIdle

searchHistory == <<llmCalls, fallbackCalls, adaptersEmpty>>
searchRest == <<userApiKeys, hasEnvKey, served, returned, execVars, planVars, sanVars,
               settingsVars>>

\* the terms that get searched: searchTerms.slice(0, 3)
termsToSearch == Slice(searchTerms, SearchedTerms)

\* performWebSearch(query) up to its first await: an empty or blank query
\* returns at once; a short one is its own search term; a long one goes to
\* the model
PerformWebSearch(q) ==
    /\ sPc = "idle"
    /\ query' = q
    /\ IF q.w = <<>>
       THEN /\ sOut' = Output(<<>>, <<>>)
            /\ sPc' = "done"
            /\ UNCHANGED <<originalQuery, searchTerms, llmCalls>>
       ELSE /\ originalQuery' = q.w
            /\ IF isShort(q.w)
               THEN /\ searchTerms' = passThrough(q.w).searchTerms
                    /\ sPc' = "terms"
                    /\ UNCHANGED llmCalls
               ELSE /\ llmCalls' = llmCalls + 1
                    /\ sPc' = "processing"
                    /\ UNCHANGED searchTerms
            /\ UNCHANGED sOut
    /\ UNCHANGED <<termIndex, pending, termResults, allResults, allCitations,
                   fallbackCalls, adaptersEmpty, canned, arrival, currentKeyIndex,
                   searchRest>>

\* processSearchQuery's generate call settles: the reply's terms, or the
\* key words of the query when the reply is of no use
QueryProcessed(reply) ==
    /\ sPc = "processing"
    /\ currentKeyIndex' = AfterGenerate(IF reply.kind = "rejected" THEN "failed"
                                        ELSE "succeeded")
    /\ searchTerms' = processedTerms(originalQuery, reply)
    /\ sPc' = "terms"
    /\ UNCHANGED <<query, originalQuery, termIndex, pending, termResults, allResults,
                   allCitations, sOut, searchHistory, canned, arrival, searchRest>>

\* the next term: the eight fetchers start; those that need no network have
\* settled when the call next waits, and so has every fetcher of a term
\* that encodeURIComponent rejects
StartTerm ==
    /\ sPc = "terms"
    /\ termIndex < Len(termsToSearch)
    /\ LET term == termsToSearch[termIndex + 1]
       IN /\ termResults' = [engine \in EngineNames |->
                                IF engine \in NetworkEngines THEN <<>>
                                ELSE proxyFetcher(term, engine)]
          /\ pending' = IF encodable(String(term)) THEN NetworkEngines ELSE {}
          /\ canned' = [engine \in NetworkEngines |->
                           IF encodable(String(term)) THEN NotSettled
                           ELSE [kind |-> "failed", payload |-> <<>>]]
    /\ arrival' = <<>>
    /\ sPc' = "fanout"
    /\ UNCHANGED <<query, originalQuery, searchTerms, termIndex, allResults,
                   allCitations, sOut, searchHistory, currentKeyIndex, searchRest>>

\* a fetch settles: a payload is read, or the fetch fails or is timed out
\* and the engine gives nothing
Settles(engine, settled) ==
    /\ sPc = "fanout"
    /\ engine \in pending
    /\ pending' = pending \ {engine}
    /\ termResults' = [termResults EXCEPT ![engine] = adapterResults(engine, settled)]
    /\ canned' = [canned EXCEPT ![engine] = settled]
    /\ arrival' = Append(arrival, engine)
    /\ UNCHANGED <<sPc, query, originalQuery, searchTerms, termIndex, allResults,
                   allCitations, sOut, searchHistory, currentKeyIndex, searchRest>>

\* termResults.flat(), engines in declaration order
RECURSIVE flatByArrival(_, _)
flatByArrival(byEngine, i) ==
    LET late(engine) == \A k \in 1..Len(arrival) : arrival[k] # engine
        order == arrival \o SelectSeq(searchEngines, late)
    IN IF i > Len(order) THEN <<>>
       ELSE byEngine[order[i]] \o flatByArrival(byEngine, i + 1)
RECURSIVE flatLastFirst(_, _)
flatLastFirst(byEngine, i) ==
    IF i > Len(searchEngines) THEN <<>>
    ELSE flatLastFirst(byEngine, i + 1) \o byEngine[searchEngines[i]]
RECURSIVE flat(_, _)
flat(byEngine, i) ==
    IF i > Len(searchEngines) THEN <<>>
    ELSE byEngine[searchEngines[i]] \o flat(byEngine, i + 1)

\* Promise.all resolves: the term's results and their citations are appended
JoinTerm ==
    /\ sPc = "fanout"
    /\ pending = {}
    /\ LET termCombinedResults == flat(termResults, 1)
       IN /\ allResults' = allResults \o termCombinedResults
          /\ allCitations' = allCitations \o
                [i \in 1..Len(termCombinedResults) |-> Citation(termCombinedResults[i])]
          /\ adaptersEmpty' = (adaptersEmpty /\ termCombinedResults = <<>>)
    /\ termIndex' = termIndex + 1
    /\ termResults' = NoTermResults
    /\ sPc' = "terms"
    /\ UNCHANGED <<query, originalQuery, searchTerms, pending, sOut, llmCalls,
                   fallbackCalls, canned, arrival, currentKeyIndex, searchRest>>

\* after the last term: the Fallback generator when nothing was collected,
\* then the duplicate filter, the sort, the formatting and the citations
Finish ==
    /\ sPc = "terms"
    /\ termIndex >= Len(termsToSearch)
    /\ LET collected == IF allResults = <<>> THEN fallbackResults(originalQuery)
                        ELSE allResults
           unique == uniqueResults(collected)
       IN /\ allResults' = collected
          /\ fallbackCalls' = IF allResults = <<>> THEN fallbackCalls + 1 ELSE fallbackCalls
          /\ sOut' = IF sortThrows(unique, searchTerms) THEN TypeError
                     ELSE Output(sortByRelevance(unique, searchTerms),
                                 uniqueCitations(allCitations))
    /\ canned' = [engine \in NetworkEngines |-> NotSettled]
    /\ arrival' = <<>>
    /\ sPc' = "done"
    /\ UNCHANGED <<query, originalQuery, searchTerms, termIndex, pending, termResults,
                   allCitations, llmCalls, adaptersEmpty, currentKeyIndex, searchRest>>

\* the model's answer to executeSingleSearch's request: the request
\* rejects, or the response has no grounding metadata, or grounding chunks
\* with a uri and a title, either the uri of a web citation or another one
Chunk(uri, title) == [uri |-> uri, title |-> title]
GroundedResponses(webCitations) ==
    LET other == Url("https://news.example/", <<"gold">>)
    IN {[kind |-> "rejected", chunks |-> <<>>],
        [kind |-> "response", chunks |-> <<>>],
        [kind |-> "response", chunks |-> <<Chunk(other, <<"News">>), Chunk(other, <<>>)>>]}
       \cup (IF webCitations = <<>> THEN {}
             ELSE {[kind |-> "response",
                    chunks |-> <<Chunk(other, <<>>),
                                 Chunk(webCitations[1].url, <<"Grounding">>)>>]})

\* chunk => ({url: chunk.web.uri, title: chunk.web.title || chunk.web.uri})
modelCitation(chunk) ==
    [source |-> Undefined,
     title |-> IF chunk.title = <<>> THEN <<chunk.uri.base>> \o chunk.uri.q
               ELSE chunk.title,
     url |-> chunk.uri]

\* Array.from(new Map(combined.map(c => [c.url, c])).values()): a url keeps
\* the place of its first citation and the value of its last one
mapValues(combined) ==
    LET first == uniqueCitations(combined)
        lastOf(url) == CHOOSE j \in 1..Len(combined) :
                          /\ combined[j].url = url
                          /\ \A k \in (j + 1)..Len(combined) : combined[k].url # url
    IN [i \in 1..Len(first) |-> combined[lastOf(first[i].url)]]

\* what executeSingleSearch has of its performWebSearch call: the value
\* returned, or no result and no citation from the catch block
webResults == IF sOut.kind = "returned" THEN sOut ELSE Output(<<>>, <<>>)
\* the summary: the web results its request was built from, and the
\* merged citations
Summary(results, citations) ==
    [kind |-> "summary", results |-> results, citations |-> citations]
Rejected == [kind |-> "rejected", results |-> <<>>, citations |-> <<>>]

\* executeSingleSearch once its performWebSearch call has settled: the
\* generate request, then the citations of the search and of the model
\* merged by url
MergeCitations(response) ==
    /\ sPc = "done"
    /\ currentKeyIndex' = AfterGenerate(IF response.kind = "rejected" THEN "failed"
                                        ELSE "succeeded")
    /\ LET modelCitations == [i \in 1..Len(response.chunks) |->
                                 modelCitation(response.chunks[i])]
           combined == webResults.citations \o modelCitations
       IN sOut' = IF response.kind = "rejected" THEN Rejected
                  ELSE Summary(webResults.results, mapValues(combined))
    /\ sPc' = "merged"
    /\ UNCHANGED <<query, originalQuery, searchTerms, termIndex, pending, termResults,
                   allResults, allCitations, searchHistory, canned, arrival, searchRest>>

\* the caller takes the result
SearchReturn ==
    /\ sPc \in {"done", "merged"}
    /\ sPc' = "idle"
    /\ query' = NoQuery
    /\ originalQuery' = <<>>
    /\ searchTerms' = <<>>
    /\ termIndex' = 0
    /\ pending' = {}
    /\ termResults' = NoTermResults
    /\ allResults' = <<>>
    /\ allCitations' = <<>>
    /\ sOut' = NoOutput
    /\ llmCalls' = 0
    /\ fallbackCalls' = 0
    /\ adaptersEmpty' = TRUE
    /\ canned' = [engine \in NetworkEngines |-> NotSettled]
    /\ arrival' = <<>>
    /\ UNCHANGED <<currentKeyIndex, searchRest>>

SearchNext ==
    \/ /\ sPc = "idle"
       /\ \E q \in Queries : PerformWebSearch(q)
    \/ \E reply \in LlmReplies : QueryProcessed(reply)
    \/ StartTerm
    \/ \E engine \in NetworkEngines : \E settled \in Outcomes(engine) :
          Settles(engine, settled)
    \/ JoinTerm
    \/ Finish
    \/ \E response \in GroundedResponses(webResults.citations) : MergeCitations(response)
    \/ SearchReturn

SearchSpec == SearchInit /\ [][SearchNext]_vars

(***************************************************************************)
(* The sanitizer applied to one parsed value after another                 *)
(***************************************************************************)
SanitizeInit ==
    /\ hasEnvKey = FALSE
    /\ userApiKeys = <<>>
    /\ currentKeyIndex = FreshIndex
    /\ served = <<>>
    /\ returned = Undefined
    /\ ExecIdle
    /\ PlanIdle
    /\ SearchIdle
    /\ rawParsed \in RawInputs
    /\ sanitized = NullTurn
    /\ applied = FALSE
    /\ SettingsIdle

SanitizeNext ==
    \/ Sanitize
    \/ \E raw \in RawInputs : Parse(raw)

SanitizeSpec == SanitizeInit /\ [][SanitizeNext]_vars

(***************************************************************************)
(* The endpoint setting: what the constructors load, then setApiBaseUrl    *)
(* calls and the settings imports they start                               *)
(***************************************************************************)
SettingsInit ==
    /\ hasEnvKey \in BOOLEAN
    /\ userApiKeys = <<"k1">>
    /\ currentKeyIndex = FreshIndex
    /\ served = <<>>
    /\ returned = Undefined
    /\ ExecIdle
    /\ PlanIdle
    /\ SearchIdle
    /\ SanIdle
    /\ apiBaseUrl \in {GEMINI_DEFAULT_API_BASE_URL, OPENROUTER_DEFAULT_API_BASE_URL}
    /\ modelOverrides \in [Roles -> {NoOverride, "gemini-2.5-pro",
                                     "google/gemini-2.5-flash", "openai/gpt-4o"}]
    /\ pendingClears = 0
    /\ switched = FALSE

\* the urls a user types: nothing, blanks, the two defaults, a proxy
SettingsNext ==
    \/ \E url \in {"", " ", GEMINI_DEFAULT_API_BASE_URL, OPENROUTER_DEFAULT_API_BASE_URL,
                    "https://proxy.example/v1"},
          storageThrows \in BOOLEAN : SetApiBaseUrl(url, storageThrows)
    \/ ImportResolves

SettingsSpec == SettingsInit /\ [][SettingsNext]_vars

(***************************************************************************)
(* Properties                                                              *)
(***************************************************************************)

\* C1: a generate call (either executor) on a non-empty key pool that stays
\* in place, every response of which is HTTP 429, makes exactly
\* keyCount x 3 attempts and ends with AllKeysFailedError.
C1_AllRateLimited ==
    (pc = "done" /\ keysLength > 0 /\ all429 /\ ~poolReplaced)
        => (attemptsMade = keysLength * 3 /\ outcome = "AllKeysFailed")

C1_Witness ==
    /\ pc = "done" /\ all429 /\ ~poolReplaced
    /\ provider = "openrouter"
    /\ keysLength = MaxKeys
    /\ attemptsMade = keysLength * 3
    /\ outcome = "AllKeysFailed"

\* C2: on a non-empty pool that is not replaced, any run of N consecutive
\* getNextApiKey() calls, N a multiple of the pool size, returns every
\* entry of the pool exactly N/size times, whatever the cursor was before.
C2_RoundRobin ==
    LET size == Len(userApiKeys) IN
    size > 0 =>
        \A i \in 1..Len(served) : \A j \in i..Len(served) :
            ((j - i + 1) % size = 0) =>
                \A k \in 0..(size - 1) :
                    Cardinality({p \in i..j : served[p] = k}) = (j - i + 1) \div size

C2_Witness ==
    /\ Len(userApiKeys) = MaxKeys
    /\ Len(served) = 2 * MaxKeys
    /\ served[1] # 0

\* C3: a generate call that succeeds has invoked reset() exactly once, and
\* returns with the cursor fresh, so that the next getNextApiKey() returns
\* the first key; a call that has not succeeded has not invoked reset().
C3_ResetOnSuccess ==
    /\ (pc = "done" /\ outcome = "ok") =>
            /\ resetCalls = 1
            /\ currentKeyIndex = FreshIndex
            /\ Len(userApiKeys) > 0 =>
                    Returned(userApiKeys, NextIndex(currentKeyIndex, Len(userApiKeys)))
                        = userApiKeys[1]
    /\ (outcome # "ok") => resetCalls = 0

C3_Witness ==
    /\ pc = "done" /\ outcome = "ok"
    /\ provider = "openrouter"
    /\ attempt >= 2
    /\ resetCalls = 1

\* the outcomes of a planner call that returns
IsPersonaThought(update) == update.type = "thought" /\ update.persona # Undefined
TailLength(history) ==
    CHOOSE k \in 0..Len(history) :
        /\ \A i \in (Len(history) - k + 1)..Len(history) : IsPersonaThought(history[i])
        /\ k = Len(history) \/ ~IsPersonaThought(history[Len(history) - k])
Searching(result) == ~result.should_finish /\ Len(result.search_queries) > 0
TimedOut(result) == result = Returns(TRUE, <<>>, TimedOutReason)
Finished(result) == result.should_finish /\ result.search_queries = <<>>
                    /\ result.finish_reason # Undefined

\* C4: whatever the model outputs (well-formed, malformed, any actions) and
\* whatever the log tail, a planner call requests at most maxDebateRounds
\* persona turns (the turns of the tail count), every call in flight ends,
\* and a call that returns a value returns a Searching, Finished or TimedOut
\* outcome.
C4_BoundedDebate ==
    /\ [](modelRequests <= maxDebateRounds)
    /\ [](modelRequests > 0 =>
            modelRequests + TailLength(researchHistory) <= maxDebateRounds)
    /\ []((pPc = "done" /\ plannerResult.kind = "returned") =>
            (Searching(plannerResult) \/ Finished(plannerResult)
             \/ TimedOut(plannerResult)))
    /\ ((pPc # "idle") ~> (pPc = "done"))

C4_Witness ==
    /\ pPc = "done"
    /\ TimedOut(plannerResult)
    /\ maxDebateRounds = MaxRounds
    /\ modelRequests = MaxRounds
    /\ lastDecision.action = "malformed"
    /\ prevDecision = "search"

\* C5: a planner call that starts with no prior debate turns, every turn of
\* which decides continue_debate, and that returns, has executed exactly
\* maxDebateRounds turns, has appended one explanatory thought after the
\* turns' thoughts, and returns should_finish = true, the reason
\* 'Planning debate timed out.' and no search queries.
C5_AllContinueTimesOut ==
    (/\ pPc = "done"
     /\ plannerResult.kind = "returned"
     /\ TailLength(researchHistory) = 0
     /\ allContinue)
        => /\ modelRequests = maxDebateRounds
           /\ Len(speakers) = maxDebateRounds
           /\ debateTurns = maxDebateRounds
           /\ updatesCount = maxDebateRounds + 1
           /\ lastUpdate = Update(Undefined, "timeout")
           /\ plannerResult.should_finish
           /\ plannerResult.finish_reason = "Planning debate timed out."
           /\ plannerResult.search_queries = <<>>

C5_Witness ==
    /\ pPc = "done"
    /\ plannerResult.kind = "returned"
    /\ researchHistory # <<>>
    /\ TailLength(researchHistory) = 0
    /\ allContinue
    /\ maxDebateRounds = MaxRounds
    /\ modelRequests = MaxRounds

\* C6: below the floor (searchCycles < minCycles) the first finish decision
\* of a call is overridden and the call does not return on it (it goes on
\* debating, and can still end by the turn limit); a finish
\* decision on the turn right after a finish decision, by the other
\* persona, is honoured and the call returns should_finish = true; at or
\* above the floor a finish decision is honoured at once.
C6_MinCycleRule ==
    LET finishes == lastDecision.action = "finish"
        honored == /\ lastDecision.returned
                   /\ pPc = "done"
                   /\ plannerResult.kind = "returned"
                   /\ plannerResult.should_finish
    IN /\ (finishes /\ searchCycles >= minCycles) => honored
       /\ (finishes /\ searchCycles < minCycles /\ ~finishBefore) =>
              /\ ~lastDecision.returned
              /\ plannerResult.kind = "returned" => TimedOut(plannerResult)
       /\ (finishes /\ searchCycles < minCycles /\ prevDecision = "finish") =>
              /\ honored
              /\ speakers[Len(speakers)] # speakers[Len(speakers) - 1]

C6_Witness ==
    /\ searchCycles < minCycles
    /\ lastDecision.action = "finish"
    /\ prevDecision = "finish"
    /\ pPc = "done"
    /\ plannerResult.should_finish
    /\ lastUpdate.note = "consensus"

\* C7: in a planner call the persona asked on a turn is never the persona
\* asked on the turn before, and the first persona asked is the one other
\* than the last speaker of the tail of persona thoughts that ends the
\* research log, Alpha when that tail is empty; whatever the model says.
C7_PersonaAlternation ==
    /\ \A i \in 1..(Len(speakers) - 1) : speakers[i] # speakers[i + 1]
    /\ Len(speakers) >= 1 =>
          speakers[1] =
              IF TailLength(researchHistory) = 0 THEN "Alpha"
              ELSE IF researchHistory[Len(researchHistory)].persona = "Alpha"
                   THEN "Beta" ELSE "Alpha"

C7_Witness ==
    /\ Len(speakers) >= 2
    /\ TailLength(researchHistory) = 1
    /\ speakers[1] = "Beta"
    /\ prevDecision = "malformed"
    /\ lastDecision.action = "finish"

\* C8: the citations a performWebSearch call returns have pairwise different
\* urls, and the results it returns have pairwise different urls and
\* pairwise different (lower-cased title, source) pairs, whatever the query,
\* the model's reply and the adapters' outputs.
C8_NoDuplicates ==
    (sPc = "done" /\ sOut.kind = "returned") =>
        /\ \A i \in 1..Len(sOut.citations) : \A j \in (i + 1)..Len(sOut.citations) :
              sOut.citations[i].url # sOut.citations[j].url
        /\ \A i \in 1..Len(sOut.results) : \A j \in (i + 1)..Len(sOut.results) :
              /\ sOut.results[i].url # sOut.results[j].url
              /\ ~(/\ lowerCase(sOut.results[i].title) = lowerCase(sOut.results[j].title)
                   /\ sOut.results[i].source = sOut.results[j].source)

C8_Witness ==
    /\ sPc = "done"
    /\ sOut.kind = "returned"
    /\ Len(sOut.results) >= 3
    /\ Len(sOut.citations) < Len(allCitations)
    /\ \E i \in 1..Len(allResults) : \E j \in (i + 1)..Len(allResults) :
          /\ allResults[i].url # allResults[j].url
          /\ lowerCase(allResults[i].title) = lowerCase(allResults[j].title)
          /\ allResults[i].title # allResults[j].title
          /\ allResults[i].source = allResults[j].source
    /\ \E i \in 1..Len(allResults) : \E j \in (i + 1)..Len(allResults) :
          /\ allResults[i].url = allResults[j].url
          /\ allResults[i].source # allResults[j].source \/ allResults[i].url = NoUrl

\* C9: a performWebSearch call never raises: whatever the query, the
\* model's reply (its search terms being strings or not) and the adapters'
\* outcomes, the call ends by returning a {results, citations} value.
C9_NeverRaises ==
    sPc = "done" => sOut.kind = "returned"

\* C10: when every adapter gave an empty sequence for every term searched,
\* the call has invoked the Fallback generator exactly once and returns a
\* non-empty result set all of whose urls are constructed search-engine
\* links; in every other case the Fallback generator is not invoked.
SearchEngineLinks == {"https://www.google.com/search?q=", "https://www.bing.com/search?q=",
                      "https://finance.yahoo.com/search?p=",
                      "https://www.marketwatch.com/search?q=",
                      "https://news.google.com/search?q="}
C10_FallbackWhenAllEmpty ==
    sPc = "done" =>
        /\ fallbackCalls = (IF termIndex >= 1 /\ adaptersEmpty THEN 1 ELSE 0)
        /\ (termIndex >= 1 /\ adaptersEmpty) =>
              /\ sOut.kind = "returned"
              /\ Len(sOut.results) > 0
              /\ \A i \in 1..Len(sOut.results) :
                    sOut.results[i].url.base \in SearchEngineLinks

C10_Witness ==
    /\ sPc = "done"
    /\ termIndex = SearchedTerms
    /\ adaptersEmpty
    /\ fallbackCalls = 1
    /\ llmCalls = 1
    /\ Len(sOut.results) > FallbackTerms
(***************************************************************************)
(* C11: sanitizePlannerTurn is total.  For every parsed object it returns  *)
(* null exactly when the thought is absent or null; otherwise the action   *)
(* is search, continue_debate or finish (continue_debate for a missing or  *)
(* unrecognized one) and the queries are null or 1 to 4 non-empty trimmed  *)
(* strings.                                                                *)
(***************************************************************************)
C11_SanitizerTotal ==
    applied =>
        /\ rawParsed.kind = "object" =>
              (sanitized.isNull <=> rawParsed.thought.t = "null")
        /\ ~sanitized.isNull =>
              /\ sanitized.action \in {"search", "continue_debate", "finish"}
              /\ (\/ rawParsed.action.t # "string"
                  \/ toLowerCase(trim(rawParsed.action.s))
                        \notin {"search", "continue_debate", "finish"})
                    => sanitized.action = "continue_debate"
              /\ \/ sanitized.queries.isNull
                 \/ /\ Len(sanitized.queries.elems) \in 1..4
                    /\ \A i \in 1..Len(sanitized.queries.elems) :
                          /\ sanitized.queries.elems[i] # ""
                          /\ trim(sanitized.queries.elems[i]) = sanitized.queries.elems[i]

\* an unrecognized action and five queries went in; continue_debate and
\* four queries came out
C11_Witness ==
    /\ applied
    /\ rawParsed.kind = "object"
    /\ rawParsed.action = Str("summarize")
    /\ Len(rawParsed.queries.elems) = 5
    /\ ~sanitized.isNull
    /\ sanitized.action = "continue_debate"
    /\ ~sanitized.queries.isNull
    /\ Len(sanitized.queries.elems) = 4

(***************************************************************************)
(* C19: once a switch of the endpoint from one provider kind to the other  *)
(* has completed, no override naming a Gemini model remains while          *)
(* OpenRouter is active and no other override remains while Gemini is      *)
(* active.                                                                 *)
(***************************************************************************)
C19_OverridesMatchProvider ==
    (switched /\ pendingClears = 0) =>
        \A role \in Roles :
            modelOverrides[role] # NoOverride =>
                (includesOpenRouterAi(apiBaseUrl) <=> ~includesGemini(modelOverrides[role]))

\* with keys from the environment the endpoint was switched to OpenRouter,
\* nothing is pending, and the planner's Gemini override is still there
C19_Witness ==
    /\ hasEnvKey
    /\ switched
    /\ pendingClears = 0
    /\ includesOpenRouterAi(apiBaseUrl)
    /\ modelOverrides["planner"] = "gemini-2.5-pro"

(***************************************************************************)
(* C14: when no attempt of a generate call succeeds, the failure carries   *)
(* the last error observed during the call: the error of the last call     *)
(* made, which for the OpenRouter executor is the fallback call of the     *)
(* last attempt.                                                           *)
(***************************************************************************)
C14_CarriesLastError ==
    (pc = "done" /\ outcome = "AllKeysFailed" /\ attemptsMade > 0) =>
        /\ lastError.attempt = attemptsMade
        /\ lastError.leg = IF provider = "openrouter" THEN "fallback" ELSE "primary"

\* an OpenRouter call has failed for good after three attempts, each with a
\* primary and a fallback call, and carries the primary error of the third
C14_Witness ==
    /\ pc = "done"
    /\ outcome = "AllKeysFailed"
    /\ provider = "openrouter"
    /\ attemptsMade = 3
    /\ lastError.attempt = 3
    /\ lastError.leg = "primary"

(***************************************************************************)
(* C15: with an empty key pool a generate call on either executor fails at *)
(* once with the NoCredentials error: no request is sent, no web search is *)
(* run, no key is drawn, and the rotation cursor stays where it was.       *)
(***************************************************************************)
C15_EmptyPoolFailsAtOnce ==
    [][(pc = "idle" /\ pc' # "idle" /\ Len(userApiKeys) = 0) =>
          /\ pc' = "done"
          /\ outcome' = "NoCredentials"
          /\ attemptsMade' = 0
          /\ webSearches' = 0
          /\ resetCalls' = 0
          /\ UNCHANGED <<currentKeyIndex, served, returned, userApiKeys>>]_vars

\* a search request to the OpenRouter executor found the pool empty; the
\* cursor was not fresh and is where it was
C15_Witness ==
    /\ pc = "done"
    /\ outcome = "NoCredentials"
    /\ provider = "openrouter"
    /\ isSearchRequest
    /\ userApiKeys = <<>>
    /\ currentKeyIndex # FreshIndex
    /\ attemptsMade = 0
    /\ webSearches = 0

(***************************************************************************)
(* C16: when checkSignal raises at a check-point of the debate loop (top   *)
(* of a turn, after the response, after a recorded turn) the planner call  *)
(* fails with that signal, and from the raise on no model call is made and *)
(* no update is appended.                                                  *)
(***************************************************************************)
C16_Cancellation ==
    /\ [][CheckSignalRaises =>
             /\ plannerResult' = Throws("Cancelled")
             /\ pPc' = "done"
             /\ modelRequests' = modelRequests
             /\ updatesCount' = updatesCount]_vars
    /\ [][(plannerResult = Throws("Cancelled") /\ pPc' # "idle") =>
             UNCHANGED <<plannerResult, modelRequests, updatesCount, lastUpdate>>]_vars

\* the signal was raised after the second turn was recorded
C16_Witness ==
    /\ pPc = "done"
    /\ plannerResult = Throws("Cancelled")
    /\ modelRequests = 2
    /\ updatesCount = 2
    /\ Len(currentConversation) = 2 + TailLength(researchHistory)

(***************************************************************************)
(* C18 as stated: a planner call that fails, fails with AllKeysFailedError *)
(* or with the cancellation signal.                                        *)
(***************************************************************************)
C18_OnlyExhaustedOrCancelled ==
    (pPc = "done" /\ plannerResult.kind = "thrown") =>
        plannerResult.finish_reason \in {"AllKeysFailed", "Cancelled"}

(***************************************************************************)
(* C18, amended: a planner call ends by returning a decision or by failing *)
(* with AllKeysFailedError, with the cancellation signal or, the key pool  *)
(* being empty, with the executor's "No API keys provided" error.          *)
(***************************************************************************)
C18_FailureSurface ==
    pPc = "done" =>
        \/ plannerResult.kind = "returned"
        \/ /\ plannerResult.kind = "thrown"
           /\ plannerResult.finish_reason \in {"AllKeysFailed", "Cancelled", "NoCredentials"}
           /\ plannerResult.finish_reason = "NoCredentials" => userApiKeys = <<>>
           /\ plannerResult.finish_reason = "AllKeysFailed" => userApiKeys # <<>>

\* the first request of a call found the key pool empty
C18_Witness ==
    /\ pPc = "done"
    /\ plannerResult = Throws("NoCredentials")
    /\ userApiKeys = <<>>
    /\ modelRequests = 1

(***************************************************************************)
(* C20: every returned outcome is well-formed.  should_finish = false      *)
(* comes with 1 to 4 non-empty trimmed queries and no finish reason;       *)
(* should_finish = true comes with no query and a non-empty finish reason: *)
(* the model's, the default naming the persona, or the timed-out reason.   *)
(***************************************************************************)
C20_OutcomeWellFormed ==
    plannerResult.kind = "returned" =>
        IF plannerResult.should_finish
        THEN /\ plannerResult.search_queries = <<>>
             /\ plannerResult.finish_reason \notin {Undefined, ""}
             /\ \/ plannerResult.finish_reason = TimedOutReason
                \/ plannerResult.finish_reason = DecidedToFinish(nextPersona)
                \/ plannerResult.finish_reason \in {"done", "{}"}
        ELSE /\ Len(plannerResult.search_queries) \in 1..4
             /\ \A i \in 1..Len(plannerResult.search_queries) :
                   /\ plannerResult.search_queries[i] # ""
                   /\ trim(plannerResult.search_queries[i]) = plannerResult.search_queries[i]
             /\ plannerResult.finish_reason = Undefined

\* five raw queries went in, the first four came out
C20_Witness ==
    /\ pPc = "done"
    /\ plannerResult.kind = "returned"
    /\ ~plannerResult.should_finish
    /\ plannerResult.search_queries = <<"q1", "q2", "q3", "q4">>
    /\ plannerResult.finish_reason = Undefined

(***************************************************************************)
(* C12: the aggregator is deterministic.  What a term contributes is a     *)
(* function of the term and of what each adapter came back with, in the    *)
(* order the engines are declared and whatever the order in which they     *)
(* settled; the ranked results and the citations returned are a function   *)
(* of the contributions and the search terms.                              *)
(***************************************************************************)
C12_Deterministic ==
    /\ [][(sPc = "fanout" /\ sPc' = "terms") =>
             LET perEngine(k) ==
                     IF searchEngines[k] \in NetworkEngines
                     THEN adapterResults(searchEngines[k], canned[searchEngines[k]])
                     ELSE proxyFetcher(termsToSearch[termIndex + 1], searchEngines[k])
                 contribution ==
                     perEngine(1) \o perEngine(2) \o perEngine(3) \o perEngine(4)
                     \o perEngine(5) \o perEngine(6) \o perEngine(7) \o perEngine(8)
             IN /\ allResults' = allResults \o contribution
                /\ allCitations' = allCitations \o
                      [i \in 1..Len(contribution) |-> Citation(contribution[i])]]_vars
    /\ []((sPc = "done" /\ sOut.kind = "returned") =>
             /\ sOut.results = sortByRelevance(uniqueResults(allResults), searchTerms)
             /\ sOut.citations = uniqueCitations(allCitations))

\* arXiv answered before Wikipedia, both with results, and the term's
\* contribution has Wikipedia's results first
C12_Witness ==
    /\ sPc = "terms"
    /\ termIndex = 1
    /\ arrival = <<"Academic", "Wikipedia">>
    /\ canned["Wikipedia"].payload # <<>>
    /\ canned["Academic"].payload # <<>>
    /\ allResults[1].source = "Wikipedia"
    /\ \E i \in 2..Len(allResults) : allResults[i].source = "arXiv"

(***************************************************************************)
(* C13: for every query of at most 30 characters and at most 3 words,      *)
(* processSearchQuery makes no model call and returns the pass-through:    *)
(* the query as the only search term, its first word as primaryTerm and    *)
(* the remaining words as context.                                         *)
(***************************************************************************)
C13_ShortQueryPassThrough ==
    LET isWord(piece) == piece # ""
        words == SelectSeq(originalQuery, isWord)
    IN (sPc # "idle" /\ originalQuery # <<>>
        /\ StrLen(originalQuery) <= 30 /\ Len(words) <= 3) =>
          /\ llmCalls = 0
          /\ sPc # "processing"
          /\ searchTerms = <<Text(originalQuery)>>
          /\ passThrough(originalQuery).primaryTerm = words[1]
          /\ passThrough(originalQuery).context = Tail(originalQuery)

\* three words, one of the gaps two blanks wide: the model was called
C13_Witness ==
    /\ sPc = "processing"
    /\ originalQuery = <<"Gold", "", "the", "the">>
    /\ llmCalls = 1

(***************************************************************************)
(* C17: in the fan-out of a term, an adapter call that fails or is timed   *)
(* out contributes an empty sequence and no error: whatever the set of     *)
(* such adapters, the fan-in completes, and it keeps the results of every  *)
(* other adapter and nothing else.                                         *)
(***************************************************************************)
C17_FailuresIsolated ==
    /\ [](sPc = "fanout" =>
             /\ sOut = NoOutput
             /\ \A engine \in NetworkEngines :
                   canned[engine].kind \in {"failed", "timeout"} => termResults[engine] = <<>>)
    /\ []((sPc = "fanout" /\ pending = {}) => ENABLED JoinTerm)
    /\ [][(sPc = "fanout" /\ sPc' = "terms") =>
             LET failed == {engine \in NetworkEngines :
                               canned[engine].kind \in {"failed", "timeout"}}
                 others == EngineNames \ failed
                 given(engine) ==
                     IF engine = "Wikipedia" THEN wikipediaResults(canned[engine].payload)
                     ELSE IF engine = "Academic" THEN academicResults(canned[engine].payload)
                     ELSE proxyFetcher(termsToSearch[termIndex + 1], engine)
                 kept == SubSeq(allResults', Len(allResults) + 1, Len(allResults'))
             IN /\ \A engine \in others : \A i \in 1..Len(given(engine)) :
                      \E j \in 1..Len(kept) : kept[j] = given(engine)[i]
                /\ \A j \in 1..Len(kept) :
                      \E engine \in others : \E i \in 1..Len(given(engine)) :
                         kept[j] = given(engine)[i]]_vars

\* Wikipedia was timed out, arXiv and DuckDuckGo answered: their results
\* are in, and nothing of Wikipedia's
C17_Witness ==
    /\ sPc = "terms"
    /\ termIndex = 1
    /\ canned["Wikipedia"].kind = "timeout"
    /\ canned["Academic"].kind = "payload"
    /\ \E i \in 1..Len(allResults) : allResults[i].source = "arXiv"
    /\ \E i \in 1..Len(allResults) : allResults[i].source = "DuckDuckGo"
    /\ \A i \in 1..Len(allResults) : allResults[i].source # "Wikipedia"

C22_HonoursRetryAfter ==
    LET failure == IF provider = "gemini" THEN lastError ELSE error
    IN (pc = "sleep" /\ failure.status = 429 /\ failure.retry[1] = "digits") =>
          delayMs = failure.retry[2] * 1000 + 500

\* the OpenRouter executor asleep for the default 2000 ms after a 429 whose
\* payload asked for 7 s
C22_Witness ==
    /\ pc = "sleep"
    /\ provider = "openrouter"
    /\ error.status = 429
    /\ error.retry = <<"digits", 7>>
    /\ delayMs = 2000

C24_SingleFallback ==
    /\ [](pc = "fallback" => provider = "openrouter")
    /\ [][(provider = "openrouter" /\ pc = "primary" /\ pc' # "primary") =>
             \/ /\ pc' = "done"
                /\ outcome' = "ok"
             \/ /\ pc' = "fallback"
                /\ key' = key
                /\ attempt' = attempt
                /\ attemptsMade' = attemptsMade
                /\ currentKeyIndex' = currentKeyIndex]_vars
    /\ [][pc' = "fallback" => pc \in {"primary", "fallback"}]_vars
    /\ [][(pc = "fallback" /\ pc' # "fallback") =>
             \/ /\ pc' = "done"
                /\ outcome' = "ok"
                /\ resetCalls' = resetCalls + 1
                /\ currentKeyIndex' = FreshIndex
                /\ attemptsMade' = attemptsMade
                /\ attempt' = attempt
             \/ /\ pc' = "sleep"
                /\ attempt' = attempt
                /\ lastError'.attempt = attempt
                /\ outcome' = "none"
             \/ /\ pc' = "loop"
                /\ attempt' = attempt + 1
                /\ lastError'.attempt = attempt
                /\ outcome' = "none"]_vars
    /\ [][(pc = "done" /\ outcome = "ok") => attemptsMade' \in {attemptsMade, 0}]_vars

\* the second attempt's primary call failed, its fallback succeeded: the
\* call is over after two attempts out of six
C24_Witness ==
    /\ pc = "done"
    /\ provider = "openrouter"
    /\ outcome = "ok"
    /\ error.attempt = 2
    /\ error.leg = "primary"
    /\ attemptsMade = 2
    /\ keysLength = 2
    /\ resetCalls = 1

(***************************************************************************)
(* C25: below the minimum-cycle floor a finish decision is honoured only   *)
(* if the turn right before it, in the same planner call, decided finish   *)
(* too: a turn in between that is no finish decision, a malformed one      *)
(* handled by the raw-text fallback included, restarts the count.          *)
(***************************************************************************)
C25_HonouredOnlyAfterFinish ==
    (/\ pPc = "done"
     /\ searchCycles < minCycles
     /\ lastDecision.action = "finish"
     /\ lastDecision.returned)
        => prevDecision = "finish"

\* finish, then a malformed turn, then finish: honoured below the floor
C25_Witness ==
    /\ pPc = "done"
    /\ searchCycles < minCycles
    /\ lastDecision.action = "finish"
    /\ lastDecision.returned
    /\ plannerResult.should_finish
    /\ prevDecision = "malformed"
    /\ finishBefore
    /\ lastUpdate.note = "consensus"

(***************************************************************************)
(* C26: every model response received in the debate loop is recorded       *)
(* through onUpdate as a thought of the speaking persona before its action *)
(* is evaluated: while a turn awaits evaluation the last update is the     *)
(* speaker's thought; a return with a search or finish decision comes      *)
(* after the append of that turn's thought; and, whenever no response is   *)
(* being awaited or handled, the number of persona thoughts appended is    *)
(* the number of model responses received.                                 *)
(***************************************************************************)
C26_EveryResponseRecorded ==
    LET personaThoughts ==
            Cardinality({i \in 1..Len(appended) : appended[i].persona # Undefined})
        speaker == speakers[Len(speakers)]
    IN /\ pPc \in {"pace", "pacefb"} =>
             /\ lastUpdate.persona = speaker
             /\ lastUpdate.note \in {"turn", "fallback", "placeholder"}
       /\ (pPc = "done" /\ plannerResult.kind = "returned" /\ lastDecision.returned) =>
             \E i \in 1..Len(appended) :
                /\ appended[i] = Update(speaker, "turn")
                /\ \A j \in (i + 1)..Len(appended) : appended[j].persona = Undefined
       /\ (pPc \in {"loop", "signals", "pace", "pacefb"}
           \/ (pPc = "done" /\ plannerResult.kind = "returned")) =>
             personaThoughts = modelRequests

\* one response received, a finish below the floor: the persona's thought
\* and the rule notice, tagged with the persona as well, were appended
C26_Witness ==
    /\ pPc = "loop"
    /\ modelRequests = 1
    /\ appended = <<Update("Alpha", "turn"), Update("Alpha", "rule")>>

C28_Transition ==
    [][(pPc = "pace" /\ pPc' # "pace" /\ plannerResult'.finish_reason # "Cancelled") =>
          LET usable == ~parsedResponse.queries.isNull
                        /\ Len(parsedResponse.queries.elems) > 0
              searching == /\ pPc' = "done"
                           /\ plannerResult'.kind = "returned"
                           /\ ~plannerResult'.should_finish
          IN /\ searching =>
                   /\ parsedResponse.action = "search"
                   /\ usable
                   /\ plannerResult'.search_queries = parsedResponse.queries.elems
                   /\ \A i \in 1..Len(plannerResult'.search_queries) :
                         plannerResult'.search_queries[i] # ""
             /\ (parsedResponse.action = "search" /\ usable) => searching
             /\ (\/ parsedResponse.action = "search" /\ ~usable
                 \/ parsedResponse.action = "continue_debate") =>
                   /\ pPc' = "loop"
                   /\ plannerResult' = NoResult
                   /\ nextPersona' # nextPersona]_vars

\* Beta said search with no usable query after Alpha's search likewise:
\* the debate goes on with Alpha
C28_Witness ==
    /\ pPc = "loop"
    /\ lastDecision = [action |-> "search", turn |-> 2, returned |-> FALSE]
    /\ prevDecision = "search"
    /\ speakers = <<"Alpha", "Beta">>
    /\ nextPersona = "Alpha"
    /\ plannerResult = NoResult

(***************************************************************************)
(* C29: the thought updates that carry a persona and are appended by one   *)
(* planner call alternate strictly, the planner's own rule-enforcement     *)
(* notices included: no two consecutive ones carry the same persona.       *)
(***************************************************************************)
C29_AppendedPersonasAlternate ==
    \A i \in 1..Len(appended), j \in 1..Len(appended) :
        (/\ i < j
         /\ appended[i].persona # Undefined
         /\ appended[j].persona # Undefined
         /\ \A k \in (i + 1)..(j - 1) : appended[k].persona = Undefined)
            => appended[i].persona # appended[j].persona

\* Beta's finish below the floor after Alpha's turn: Beta's thought is
\* followed by the rule notice tagged Beta
C29_Witness ==
    /\ Len(appended) = 3
    /\ appended[1].persona = "Alpha"
    /\ appended[2] = Update("Beta", "turn")
    /\ appended[3] = Update("Beta", "rule")

(***************************************************************************)
(* C30: whatever the order in which the adapters of a term settle, the     *)
(* term's results are merged in the order Wikipedia, Academic, DuckDuckGo, *)
(* Bing, Reddit, Baidu, Yandex, News, behind the results of the terms      *)
(* before it; terms are taken one after another, and no adapter of a term  *)
(* starts before every adapter of the term before it has settled.          *)
(***************************************************************************)
C30_MergeOrder ==
    /\ [][(sPc = "fanout" /\ sPc' = "terms") =>
             /\ pending = {}
             /\ termIndex' = termIndex + 1
             /\ allResults' =
                   allResults \o termResults["Wikipedia"] \o termResults["Academic"]
                   \o termResults["DuckDuckGo"] \o termResults["Bing"]
                   \o termResults["Reddit"] \o termResults["Baidu"]
                   \o termResults["Yandex"] \o termResults["News"]]_vars
    /\ [][(sPc = "fanout" /\ sPc' = "fanout") =>
             /\ termIndex' = termIndex
             /\ allResults' = allResults
             /\ pending' \subseteq pending]_vars
    /\ [][(sPc' = "fanout" /\ sPc # "fanout") =>
             /\ sPc = "terms"
             /\ pending = {}
             /\ termIndex' = termIndex
             /\ termIndex < 3
             /\ allResults' = allResults]_vars
    /\ [](sPc # "fanout" => pending = {})

\* the second term joined: arXiv had answered before Wikipedia, and the
\* results of the first term come first, Wikipedia's before arXiv's in both
C30_Witness ==
    /\ sPc = "terms"
    /\ termIndex = 2
    /\ arrival = <<"Academic", "Wikipedia">>
    /\ \E i, j, k, l \in 1..Len(allResults) :
          /\ i < j /\ j < k /\ k < l
          /\ allResults[i].source = "Wikipedia"
          /\ allResults[j].source = "arXiv"
          /\ allResults[k].source = "Wikipedia"
          /\ allResults[l].source = "arXiv"

(***************************************************************************)
(* C35: after any sequence of getNextApiKey(), reset() and setApiKeys()    *)
(* the rotation cursor is fresh (-1) or an index into the current pool,    *)
(* and getNextApiKey() on a pool that is not empty returns one of its      *)
(* keys.                                                                   *)
(***************************************************************************)
C35_CursorInPool ==
    /\ [](currentKeyIndex = 0 - 1
          \/ (0 <= currentKeyIndex /\ currentKeyIndex < Len(userApiKeys)))
    /\ [][(returned' # returned \/ currentKeyIndex' \notin {currentKeyIndex, 0 - 1}) =>
             IF Len(userApiKeys) = 0 THEN returned' = Undefined
             ELSE \E i \in 1..Len(userApiKeys) : returned' = userApiKeys[i]]_vars

\* two keys served, then the pool replaced by a pool of one key: the
\* cursor is 1, past the end of the pool
C35_Witness ==
    /\ Len(userApiKeys) = 1
    /\ currentKeyIndex = 1
    /\ served = <<>>
    /\ returned = "k2"

(***************************************************************************)
(* C36: with a stable pool and generate calls one after another, attempt a *)
(* of every call uses the key at index (a-1) mod keyCount, the first       *)
(* attempt the first key, whether the call before succeeded or failed      *)
(* with all keys exhausted: between calls the cursor is fresh or on the    *)
(* last key.                                                               *)
(***************************************************************************)
C36_AttemptKey ==
    /\ pc \in {"primary", "fallback", "sleep"} =>
          /\ keysLength = Len(userApiKeys)
          /\ key = userApiKeys[((attempt - 1) % keysLength) + 1]
          /\ (attempt = 1 => key = userApiKeys[1])
    /\ (pc \in {"idle", "done"} /\ Len(userApiKeys) > 0) =>
          currentKeyIndex \in {0 - 1, Len(userApiKeys) - 1}

\* a call failed with all keys exhausted, the next call is at its second
\* attempt with the second key of two
C36_Witness ==
    /\ pc = "primary"
    /\ attempt = 2
    /\ keysLength = 2
    /\ key = userApiKeys[2]
    /\ userApiKeys[1] # userApiKeys[2]
    /\ currentKeyIndex = 1
    /\ resetCalls = 0

(***************************************************************************)
(* C37: a planner call whose log ends in a tail of k persona thoughts      *)
(* makes at most max(0, maxDebateRounds - k) model requests; when          *)
(* k >= maxDebateRounds it makes none: its only step is the time-out,      *)
(* with the explanatory thought as its only update.                        *)
(***************************************************************************)
C37_TailBudget ==
    LET k == TailLength(researchHistory)
        budget == IF maxDebateRounds > k THEN maxDebateRounds - k ELSE 0
    IN /\ modelRequests <= budget
       /\ (pPc # "idle" /\ k >= maxDebateRounds) =>
             /\ pPc \in {"loop", "done"}
             /\ modelRequests = 0
             /\ speakers = <<>>
             /\ pPc = "done" =>
                   (TimedOut(plannerResult) /\ appended = <<Update(Undefined, "timeout")>>)

\* a tail of two turns leaves one request out of three rounds
C37_Witness ==
    /\ pPc = "done"
    /\ TailLength(researchHistory) = 2
    /\ maxDebateRounds = 3
    /\ modelRequests = 1
    /\ TimedOut(plannerResult)
    /\ lastDecision.action = "continue_debate"

\* a tail as long as the round limit: timed out at once
C37_TimedOutAtOnce ==
    /\ pPc = "done"
    /\ TailLength(researchHistory) = 2
    /\ maxDebateRounds = 2
    /\ TimedOut(plannerResult)

(***************************************************************************)
(* C40: the planner enforces the min-cycle floor and the round limit only: *)
(* what a usable turn decides is a function of the turn, the finish        *)
(* counter, searchCycles and minCycles, the same for every maxCycles, and  *)
(* no step of a call changes or depends on maxCycles (a cancellation at    *)
(* the check-point apart); a search outcome is returned also when          *)
(* searchCycles >= maxCycles.                                              *)
(***************************************************************************)
C40_MaxCyclesIgnored ==
    [][(pPc = "pace" /\ pPc' # "pace" /\ plannerResult'.finish_reason # "Cancelled") =>
         LET finishes == parsedResponse.action = "finish"
             held == /\ finishes
                     /\ searchCycles < minCycles
                     /\ consecutiveFinishAttempts + 1 < ConsensusThreshold
             found == /\ parsedResponse.action = "search"
                      /\ ~parsedResponse.queries.isNull
                      /\ Len(parsedResponse.queries.elems) > 0
         IN /\ maxCycles' = maxCycles
            /\ IF finishes /\ ~held
               THEN pPc' = "done" /\ Finished(plannerResult')
               ELSE IF found
               THEN /\ pPc' = "done"
                    /\ plannerResult' = Returns(FALSE, parsedResponse.queries.elems, Undefined)
               ELSE pPc' = "loop" /\ plannerResult' = plannerResult]_vars

\* a search outcome with the cap already met
C40_Witness ==
    /\ pPc = "done"
    /\ Searching(plannerResult)
    /\ maxCycles > 0
    /\ searchCycles >= maxCycles

\* a left-to-right scan that keeps a result when it collides with no result
\* kept so far
RECURSIVE scanKeeping(_, _)
scanKeeping(results, kept) ==
    IF results = <<>> THEN kept
    ELSE scanKeeping(Tail(results),
                     IF \E i \in 1..Len(kept) : sameResult(kept[i], Head(results))
                     THEN kept ELSE Append(kept, Head(results)))

(***************************************************************************)
(* C31: the duplicate filter is 'first occurrence wins': the returned      *)
(* results are those of a left-to-right scan of the collected results that *)
(* keeps a result iff it collides (same url, or same lower-cased title and *)
(* same source) with no result kept so far, and every removed result       *)
(* collides with a retained one.                                           *)
(***************************************************************************)
C31_FirstOccurrenceWins ==
    (sPc = "done" /\ sOut.kind = "returned") =>
        LET kept == scanKeeping(allResults, <<>>)
            retained(result) == \E j \in 1..Len(sOut.results) : sOut.results[j] = result
        IN /\ sOut.results = sortByRelevance(kept, searchTerms)
           /\ \A i \in 1..Len(allResults) :
                 retained(allResults[i])
                 \/ \E j \in 1..Len(sOut.results) :
                       sameResult(sOut.results[j], allResults[i])

\* a result without a title, a second one without title and id, removed
\* for the first, and a third one without id, removed for the second
C31_Witness ==
    /\ sPc = "done"
    /\ sOut.kind = "returned"
    /\ \E i \in 1..Len(allResults) :
          /\ i + 2 <= Len(allResults)
          /\ allResults[i].title = <<>> /\ allResults[i].url # NoUrl
          /\ allResults[i + 1].title = <<>> /\ allResults[i + 1].url = NoUrl
          /\ allResults[i + 2].title = <<"Gold">> /\ allResults[i + 2].url = NoUrl
          /\ \A j \in 1..Len(sOut.results) :
                /\ sOut.results[j] # allResults[i + 2]
                /\ ~sameResult(sOut.results[j], allResults[i + 2])

\* the score of a result: 2 for each term found in the title, 1 for each
\* term found in the snippet
score(result) ==
    LET lower(i) == lowerCase(searchTerms[i].w)
    IN 2 * Cardinality({i \in 1..Len(searchTerms) :
                           includes(lowerCase(result.title), lower(i))})
       + Cardinality({i \in 1..Len(searchTerms) :
                         includes(lowerCase(result.snippet), lower(i))})
\* where a result was first collected
collectedAt(result) ==
    CHOOSE k \in 1..Len(allResults) :
        allResults[k] = result /\ \A n \in 1..(k - 1) : allResults[n] # result

(***************************************************************************)
(* C32: the results a call returns are in order of non-increasing          *)
(* relevance, the score being 2 for every search term whose lower-cased    *)
(* form occurs in the title plus 1 for every one that occurs in the        *)
(* snippet; results of equal score keep the order of collection.           *)
(***************************************************************************)
C32_OrderedByRelevance ==
    (sPc = "done" /\ sOut.kind = "returned") =>
        \A i \in 1..Len(sOut.results) : \A j \in (i + 1)..Len(sOut.results) :
            /\ score(sOut.results[i]) >= score(sOut.results[j])
            /\ score(sOut.results[i]) = score(sOut.results[j]) =>
                  collectedAt(sOut.results[i]) < collectedAt(sOut.results[j])

\* the sort moved a result ahead of one collected before it, and left two
\* results of equal score in place
C32_Witness ==
    /\ sPc = "done"
    /\ sOut.kind = "returned"
    /\ \E i \in 1..Len(sOut.results) : \E j \in (i + 1)..Len(sOut.results) :
          /\ score(sOut.results[i]) > score(sOut.results[j])
          /\ collectedAt(sOut.results[i]) > collectedAt(sOut.results[j])
    /\ \E i \in 1..Len(sOut.results) : \E j \in (i + 1)..Len(sOut.results) :
          /\ score(sOut.results[i]) = score(sOut.results[j])
          /\ score(sOut.results[i]) > 0

(***************************************************************************)
(* C39: the citations of a call are built from the results the adapters    *)
(* gave for the terms and from nothing else: every returned citation has   *)
(* the url (and the title and source) of a collected adapter result, and   *)
(* when the results come from the Fallback generator the citation list is  *)
(* empty.                                                                  *)
(***************************************************************************)
C39_CitationsFromAdapters ==
    (sPc = "done" /\ sOut.kind = "returned") =>
        /\ fallbackCalls > 0 => (sOut.citations = <<>> /\ allCitations = <<>>)
        /\ \A i \in 1..Len(sOut.citations) :
              /\ fallbackCalls = 0
              /\ \E k \in 1..Len(allResults) :
                    /\ sOut.citations[i].url = allResults[k].url
                    /\ sOut.citations[i].title = allResults[k].title
                    /\ sOut.citations[i].source = allResults[k].source

\* citations of the results of two engines
C39_Witness ==
    /\ sPc = "done"
    /\ sOut.kind = "returned"
    /\ fallbackCalls = 0
    /\ \E i \in 1..Len(sOut.citations) : sOut.citations[i].source = "Wikipedia"
    /\ \E i \in 1..Len(sOut.citations) : sOut.citations[i].source = "DuckDuckGo"

\* results of the Fallback generator, and no citation
C39_FallbackWitness ==
    /\ sPc = "done"
    /\ sOut.kind = "returned"
    /\ fallbackCalls = 1
    /\ Len(sOut.results) > 0
    /\ sOut.citations = <<>>

(***************************************************************************)
(* C34: every adapter that goes through the proxy fetcher (DuckDuckGo,     *)
(* Bing, Reddit, Baidu, Yandex, News) gives for every term a single        *)
(* synthetic result, whose snippet says that live retrieval is unavailable *)
(* and whose url is a manual search link.                                  *)
(***************************************************************************)
C34_ProxySynthetic ==
    sPc = "fanout" =>
        \A engine \in EngineNames \ NetworkEngines :
            /\ Len(termResults[engine]) = 1
            /\ termResults[engine][1].source = engine
            /\ includes(termResults[engine][1].snippet, <<"unavailable">>)
            /\ termResults[engine][1].url # NoUrl

\* a term that DuckDuckGo and Reddit answer with their synthetic result,
\* and Bing, Baidu, Yandex and News with nothing
C34_Witness ==
    /\ sPc = "fanout"
    /\ Len(termResults["DuckDuckGo"]) = 1
    /\ includes(termResults["DuckDuckGo"][1].snippet, <<"unavailable">>)
    /\ Len(termResults["Reddit"]) = 1
    /\ \A engine \in {"Bing", "Baidu", "Yandex", "News"} : termResults[engine] = <<>>

(***************************************************************************)
(* C38: for every query that is not empty or blank a call that returns     *)
(* returns a result list that is not empty, whichever adapters fail and    *)
(* whether the model call succeeds or not; it returns an empty list only   *)
(* for an empty or blank query, and then without a model call and without  *)
(* an adapter call.                                                        *)
(***************************************************************************)
C38_NeverEmptyHanded ==
    (sPc = "done" /\ sOut.kind = "returned") =>
        /\ query.w # <<>> => Len(sOut.results) > 0
        /\ query.w = <<>> =>
              /\ sOut.results = <<>>
              /\ llmCalls = 0
              /\ termIndex = 0
              /\ fallbackCalls = 0

\* a query that encodeURIComponent rejects: every adapter and the Fallback
\* generator give nothing
C38_Witness ==
    /\ sPc = "done"
    /\ sOut.kind = "returned"
    /\ query.w = <<LoneSurrogate>>
    /\ termIndex = 1
    /\ fallbackCalls = 1
    /\ sOut.results = <<>>

\* the blank query: nothing is called
C38_BlankQuery ==
    /\ sPc = "done"
    /\ query.padded
    /\ query.w = <<>>
    /\ sOut = Output(<<>>, <<>>)
    /\ llmCalls = 0

(***************************************************************************)
(* C33: wherever citations are deduplicated by url the first occurrence is *)
(* the one kept: performWebSearch returns, for every url, the citation of  *)
(* the earliest result collected with it, and executeSingleSearch, which   *)
(* merges the citations of the search with those of the model's grounding, *)
(* keeps a citation of the search over a citation of the model with the    *)
(* same url.                                                               *)
(***************************************************************************)
C33_FirstCitationKept ==
    LET earliest(citations, url) ==
            citations[CHOOSE k \in 1..Len(citations) :
                         /\ citations[k].url = url
                         /\ \A n \in 1..(k - 1) : citations[n].url # url]
        ofSearch == IF sOut.results = <<>> THEN <<>> ELSE uniqueCitations(allCitations)
    IN /\ (sPc = "done" /\ sOut.kind = "returned") =>
             \A i \in 1..Len(sOut.citations) :
                 sOut.citations[i] = earliest(allCitations, sOut.citations[i].url)
       /\ (sPc = "merged" /\ sOut.kind = "summary") =>
             \A i \in 1..Len(ofSearch) :
                 \E j \in 1..Len(sOut.citations) : sOut.citations[j] = ofSearch[i]

\* the model grounds its answer on the page of the first web citation: the
\* merged list has the model's citation in its place
C33_Witness ==
    /\ sPc = "merged"
    /\ sOut.kind = "summary"
    /\ Len(allCitations) > 0
    /\ sOut.citations[1].url = allCitations[1].url
    /\ sOut.citations[1].title = <<"Grounding">>
    /\ sOut.citations[1].source = Undefined
    /\ sOut.results # <<>>
    /\ Len(sOut.citations) = Len(uniqueCitations(allCitations)) + 1

====
